---- MODULE Spec2Model ----
(***************************************************************************)
(* Authentication and security-token lifecycle of the accounts app:        *)
(* pending secrets of UserSecurity (password reset, email verification),   *)
(* login with the 2FA step-up, and password reset.                         *)
(*                                                                         *)
(* Time is counted in TOTP time steps (30 s, the pyotp default), so one    *)
(* clock serves the TOTP window, the JWT lifetimes and the secret expiry.  *)
(***************************************************************************)
EXTENDS Integers, Sequences, FiniteSets, TLC

VARIABLES
    clock,      \* timezone.now(), in TOTP time steps
    users,      \* accounts_user rows: id -> [password, is_active, is_verified]
    security,   \* accounts_usersecurity rows, one per user
    nextRaw,    \* number of raw secrets drawn from secrets.token_urlsafe so far
    issued,     \* history: per (user, kind) the most recent generate and whether it was cleared
    generated,  \* history: every <<user, kind, raw>> ever generated
    jwts,       \* history: every JWT handed out
    failed,     \* history: step-up tokens presented with a wrong code
    spent,      \* history: raw secrets with which a reset or a verification succeeded
    rows,       \* which rows exist per account: [user, security, presence]
    outbox,     \* history: mails handed to SendGrid: [to, kind, raw]
    blacklist,  \* token_blacklist: serials of the refresh tokens blacklisted
    calls,      \* the send_reset_email calls in flight: position and locals of each, the row lock
    last        \* outcome of the most recent service call

vars == <<clock, users, security, nextRaw, issued, generated, jwts, failed, spent, rows, outbox, calls, blacklist, last>>

----------------------------------------------------------------------------
(* Bounds of the model *)

MaxTokens == 3      \* raw secrets drawn in one behaviour
MaxHours == 2       \* single hours the clock takes (secret expiry)
MaxSteps == 2       \* single TOTP steps the clock takes (login flows)
MaxJwts == 2        \* JWT issuing calls in one behaviour
MaxResetRequests == 2   \* reset secrets generated in one behaviour (password reset)

(* Program constants *)

PASSWORD_RESET_EXPIRY_HOURS == 1
EMAIL_VERIFICATION_EXPIRY_HOURS == 24
StepsPerHour == 120         \* 3600 s / 30 s TOTP interval
TwoFALifetimeSteps == 10    \* timedelta(minutes=5)
AccessLifetimeSteps == 2880 \* timedelta(days=1)
RefreshLifetimeSteps == 86400 \* timedelta(days=30)
TotpValidWindow == 1        \* totp.verify(token, valid_window=1)
ViewSecretLifetimeSteps == 60   \* timedelta(minutes=30) in the resend and forgot-password views

UserIds == {"u1", "u2"}
Kinds == {"forgot_password", "email_verification"}

Passwords == {"pwA", "pwB"}          \* passwords that pass validate_password
WeakPassword == "weak"               \* one that does not

NullToken == <<>>           \* a NULL token column
NullTime == -1              \* a NULL expiry column
NoRaw == 0                  \* the empty string: a raw value no generate returns

RawTokens == 0..MaxTokens

----------------------------------------------------------------------------
(* Token hash helper: sha256 hex digest, injective on the raw values and
   never equal to the raw value itself *)
hash_token(raw) == <<"sha256", raw>>

(* secrets.token_urlsafe(32): a value never returned before *)
token_urlsafe == nextRaw + 1

EmptySecurity ==
    [ forgot_password_token |-> NullToken,
      forgot_password_expiry |-> NullTime,
      email_verification_token |-> NullToken,
      email_verification_expiry |-> NullTime,
      is_2fa_enabled |-> FALSE,
      totp_secret |-> 0 ]

NoIssue == [raw |-> NoRaw, at |-> 0, live |-> FALSE]

(* Every account with its User, UserSecurity and UserPresence rows *)
AllRows == [u \in UserIds |-> [user |-> TRUE, security |-> TRUE, presence |-> TRUE]]

(* A call's record: the operation, its principal input (the email, the raw
   secret, or the serial of the bearer token), the result, the JWTs issued,
   and `pre`: what held of the inputs when the call was made (history) *)
NoFacts == "none"
NoCall == [op |-> "none", arg |-> "none", result |-> "none", tokens |-> {}, pre |-> NoFacts]

(* Two requests served at once, each a call of send_reset_email; before a
   call starts it is idle, with no raw token and no time read *)
Procs == {"p1", "p2"}
IdleCall == [pc |-> "idle", raw |-> NoRaw, now |-> NullTime, met |-> FALSE, result |-> "none"]
NoCalls == [proc |-> [p \in Procs |-> IdleCall], lock |-> "none", order |-> <<>>]

----------------------------------------------------------------------------
(* UserSecurity: token generators, verifiers and cleanup.  Each operator
   takes the row and returns the row as saved (or the verdict). *)

generate_forgot_password(sec, raw, now) ==
    [sec EXCEPT !.forgot_password_token = hash_token(raw),
                !.forgot_password_expiry =
                    now + PASSWORD_RESET_EXPIRY_HOURS * StepsPerHour]

generate_email_verification_token(sec, raw, now) ==
    [sec EXCEPT !.email_verification_token = hash_token(raw),
                !.email_verification_expiry =
                    now + EMAIL_VERIFICATION_EXPIRY_HOURS * StepsPerHour]

(* verify_forgot_password_token without the expiry check *)
verify_forgot_password_token_no_expiry(sec, raw, now) ==
    IF sec.forgot_password_token = NullToken THEN FALSE
    ELSE IF sec.forgot_password_expiry = NullTime THEN FALSE
    ELSE hash_token(raw) = sec.forgot_password_token

verify_forgot_password_token(sec, raw, now) ==
    IF sec.forgot_password_token = NullToken THEN FALSE
    ELSE IF sec.forgot_password_expiry = NullTime THEN FALSE
    ELSE IF now > sec.forgot_password_expiry THEN FALSE
    ELSE hash_token(raw) = sec.forgot_password_token

verify_email_verification_token(sec, raw, now) ==
    IF sec.email_verification_token = NullToken THEN FALSE
    ELSE IF sec.email_verification_expiry = NullTime THEN FALSE
    ELSE IF now > sec.email_verification_expiry THEN FALSE
    ELSE hash_token(raw) = sec.email_verification_token

clear_forgot_password_token(sec) ==
    [sec EXCEPT !.forgot_password_token = NullToken,
                !.forgot_password_expiry = NullTime]

clear_email_verification_token(sec) ==
    [sec EXCEPT !.email_verification_token = NullToken,
                !.email_verification_expiry = NullTime]

(* History bookkeeping of the secrets *)
NoteGenerate(u, kind, raw) ==
    /\ issued' = [issued EXCEPT ![u][kind] = [raw |-> raw, at |-> clock, live |-> TRUE]]
    /\ generated' = generated \cup {<<u, kind, raw>>}

NoteClear(u, kind) ==
    /\ issued' = [issued EXCEPT ![u][kind].live = FALSE]
    /\ UNCHANGED generated

----------------------------------------------------------------------------
(* The pending-secret state machine on its own: the model methods called
   in any order on any account, with the clock advancing in hours. *)

InitUsers == [u \in UserIds |-> [password |-> "pwA", is_active |-> TRUE, is_verified |-> FALSE]]

InitSecret ==
    /\ clock = 0
    /\ users = InitUsers
    /\ security = [u \in UserIds |-> EmptySecurity]
    /\ nextRaw = 0
    /\ issued = [u \in UserIds |-> [k \in Kinds |-> NoIssue]]
    /\ generated = {}
    /\ jwts = {}
    /\ failed = {}
    /\ spent = {}
    /\ rows = AllRows
    /\ outbox = {}
    /\ calls = NoCalls
    /\ blacklist = {}
    /\ last = NoCall

GenerateForgotPassword(u) ==
    /\ nextRaw < MaxTokens
    /\ security' = [security EXCEPT ![u] = generate_forgot_password(@, token_urlsafe, clock)]
    /\ nextRaw' = nextRaw + 1
    /\ NoteGenerate(u, "forgot_password", token_urlsafe)
    /\ UNCHANGED <<clock, users, jwts, failed, last, spent, rows, outbox, calls, blacklist>>

GenerateEmailVerificationToken(u) ==
    /\ nextRaw < MaxTokens
    /\ security' = [security EXCEPT ![u] = generate_email_verification_token(@, token_urlsafe, clock)]
    /\ nextRaw' = nextRaw + 1
    /\ NoteGenerate(u, "email_verification", token_urlsafe)
    /\ UNCHANGED <<clock, users, jwts, failed, last, spent, rows, outbox, calls, blacklist>>

ClearForgotPasswordToken(u) ==
    /\ security' = [security EXCEPT ![u] = clear_forgot_password_token(@)]
    /\ NoteClear(u, "forgot_password")
    /\ UNCHANGED <<clock, users, nextRaw, jwts, failed, last, spent, rows, outbox, calls, blacklist>>

ClearEmailVerificationToken(u) ==
    /\ security' = [security EXCEPT ![u] = clear_email_verification_token(@)]
    /\ NoteClear(u, "email_verification")
    /\ UNCHANGED <<clock, users, nextRaw, jwts, failed, last, spent, rows, outbox, calls, blacklist>>

(* The clock moves hour by hour during the first MaxHours hours, and by the
   lifetime of an email verification secret in one jump *)
AdvanceHour ==
    /\ clock < MaxHours * StepsPerHour
    /\ clock' = clock + StepsPerHour
    /\ UNCHANGED <<users, security, nextRaw, issued, generated, jwts, failed, last, spent, rows, outbox, calls, blacklist>>

AdvanceDay ==
    /\ clock <= MaxHours * StepsPerHour
    /\ clock' = clock + EMAIL_VERIFICATION_EXPIRY_HOURS * StepsPerHour
    /\ UNCHANGED <<users, security, nextRaw, issued, generated, jwts, failed, last, spent, rows, outbox, calls, blacklist>>

NextSecret ==
    \/ \E u \in UserIds : GenerateForgotPassword(u)
    \/ \E u \in UserIds : GenerateEmailVerificationToken(u)
    \/ \E u \in UserIds : ClearForgotPasswordToken(u)
    \/ \E u \in UserIds : ClearEmailVerificationToken(u)
    \/ AdvanceHour
    \/ AdvanceDay

SpecSecret == InitSecret /\ [][NextSecret]_vars

(* Expiry of the most recent generate of a kind, as the settings give it *)
KindHours(kind) ==
    IF kind = "forgot_password" THEN PASSWORD_RESET_EXPIRY_HOURS
    ELSE EMAIL_VERIFICATION_EXPIRY_HOURS

Verify(u, kind, raw) ==
    IF kind = "forgot_password"
    THEN verify_forgot_password_token(security[u], raw, clock)
    ELSE verify_email_verification_token(security[u], raw, clock)

(* C1: verify(raw) is true exactly when raw is the value of the most recent
   generate for that account and kind, no clear happened since, and the
   clock has not passed generation time plus the kind's lifetime. *)
C1_VerifyIffLatestLive ==
    \A u \in UserIds : \A kind \in Kinds : \A raw \in RawTokens :
        Verify(u, kind, raw) <=>
            /\ issued[u][kind].live
            /\ raw = issued[u][kind].raw
            /\ clock <= issued[u][kind].at + KindHours(kind) * StepsPerHour

(* An account whose secret was regenerated: the new raw verifies while the
   older raw of the same kind is still within its own lifetime. *)
C1_Witness ==
    \E u \in UserIds : \E kind \in Kinds : \E old \in RawTokens :
        /\ <<u, kind, old>> \in generated
        /\ old # issued[u][kind].raw
        /\ issued[u][kind].live
        /\ Verify(u, kind, issued[u][kind].raw)
        /\ ~Verify(u, kind, old)

----------------------------------------------------------------------------
(* JSON web tokens.  A token is its claims; `serial` numbers the issuing
   call (the jti differs per call) and `by` remembers the operation that
   issued it (history, not a claim). *)

NoJwt == [token_type |-> "none", type |-> "none", user_id |-> "none",
          exp |-> 0, serial |-> 0, by |-> "none"]

NextSerial == 1 + Cardinality({t.serial : t \in jwts})

(* RefreshToken.for_user(user) *)
RefreshTokenFor(u, by) ==
    [token_type |-> "refresh", type |-> "none", user_id |-> u,
     exp |-> clock + RefreshLifetimeSteps, serial |-> NextSerial, by |-> by]

(* refresh.access_token *)
AccessTokenFor(u, by) ==
    [token_type |-> "access", type |-> "none", user_id |-> u,
     exp |-> clock + AccessLifetimeSteps, serial |-> NextSerial, by |-> by]

(* LoginService._generate_tokens / generate_tokens: {"access", "refresh"} *)
_generate_tokens(u, by) == {AccessTokenFor(u, by), RefreshTokenFor(u, by)}

(* LoginService._generate_2fa_token: an AccessToken with the extra claim
   type=2fa and a five-minute expiry; its token_type claim stays "access" *)
_generate_2fa_token(u) ==
    [token_type |-> "access", type |-> "2fa", user_id |-> u,
     exp |-> clock + TwoFALifetimeSteps, serial |-> NextSerial, by |-> "login_2fa"]

(* SIMPLE_JWT["AUTH_TOKEN_CLASSES"]: AccessToken and TwoFAToken, by the
   token_type each class requires *)
AUTH_TOKEN_CLASSES == {"access", "2fa"}

(* JWTAuthentication.authenticate: the validated user, or "none".  A class
   accepts a token whose token_type claim is the class's and whose exp is
   later than now; the user must exist and be active. *)
JWTAuthentication(t) ==
    IF /\ t \in jwts
       /\ \E cls \in AUTH_TOKEN_CLASSES : t.token_type = cls /\ t.exp > clock
       /\ t.user_id \in UserIds
       /\ users[t.user_id].is_active
    THEN t.user_id
    ELSE "none"

(* rest_framework.permissions.IsAuthenticated *)
IsAuthenticated(t) == JWTAuthentication(t) # "none"

(* accounts.permissions.Is2FAToken *)
Is2FAToken(t) == JWTAuthentication(t) # "none" /\ t.type = "2fa"

StepUpView == "2fa-verify"
SessionViews == {"current-user", "update-avatar", "change-password", "2fa-setup",
                 "2fa-enable", "2fa-disable", "logout", "change-role"}

(* permission_classes of each view *)
ViewPermits(view, t) ==
    IF view = StepUpView THEN Is2FAToken(t) ELSE IsAuthenticated(t)

----------------------------------------------------------------------------
(* TOTP.  A code is the pair (secret, time step) it was computed from: HOTP
   is taken to be injective on the pairs the model draws. *)
TotpAt(secret, step) == <<secret, step>>

(* UserSecurity.verify_totp: pyotp's verify with valid_window=1 compares the
   code with the codes of the steps now-1, now, now+1 *)
verify_totp(sec, code, now) ==
    IF sec.totp_secret = 0 THEN FALSE
    ELSE \E i \in (0 - TotpValidWindow)..TotpValidWindow :
            code = TotpAt(sec.totp_secret, now + i)

----------------------------------------------------------------------------
(* django.contrib.auth.authenticate with the default ModelBackend (no
   AUTHENTICATION_BACKENDS setting): the user found by USERNAME_FIELD whose
   password checks and who can authenticate (is_active), else None *)
authenticate(email, password) ==
    IF /\ email \in UserIds
       /\ users[email].password = password
       /\ users[email].is_active
    THEN email
    ELSE "none"

(* login_user without the 2FA branch *)
login_user_skip_2fa(email, password) ==
    LET user == authenticate(email, password) IN
    IF user = "none" THEN <<"AuthenticationRequiredException", {}>>
    ELSE IF ~users[user].is_active THEN <<"InactiveUserException", {}>>
    ELSE IF ~users[user].is_verified THEN <<"InvalidTokenException", {}>>
    ELSE <<"tokens", _generate_tokens(user, "login")>>

(* LoginService.login_user: <<result, tokens issued>> *)
login_user(email, password) ==
    LET user == authenticate(email, password) IN
    IF user = "none" THEN <<"AuthenticationRequiredException", {}>>
    ELSE IF ~users[user].is_active THEN <<"InactiveUserException", {}>>
    ELSE IF ~users[user].is_verified THEN <<"InvalidTokenException", {}>>
    ELSE IF security[user].is_2fa_enabled
         THEN <<"requires_2fa", {_generate_2fa_token(user)}>>
    ELSE <<"tokens", _generate_tokens(user, "login")>>

(* verify_2fa_and_issue_tokens without the OTP check *)
verify_2fa_and_issue_tokens_unchecked(user, code) ==
    IF ~security[user].is_2fa_enabled THEN <<"ValidationException", {}>>
    ELSE <<"tokens", _generate_tokens(user, "verify_2fa")>>

(* TwoFactorService.verify_2fa_and_issue_tokens *)
verify_2fa_and_issue_tokens(user, code) ==
    IF ~security[user].is_2fa_enabled THEN <<"ValidationException", {}>>
    ELSE IF ~verify_totp(security[user], code, clock)
         THEN <<"AuthenticationFailedException", {}>>
    ELSE <<"tokens", _generate_tokens(user, "verify_2fa")>>

----------------------------------------------------------------------------
(* Login and the 2FA step-up.  The accounts are as the store may hold them:
   any mix of active/verified flags, 2FA enabled (with its secret) or not
   (with no secret, or with one from an unfinished setup). *)

Emails == UserIds \cup {"nobody"}
LoginPasswords == {"pwA", "pwB"}

TotpSecretOf(u) == IF u = "u1" THEN 1 ELSE 2      \* pyotp.random_base32()

TwoFAOn(u) == [EmptySecurity EXCEPT !.is_2fa_enabled = TRUE, !.totp_secret = TotpSecretOf(u)]

(* u1 in any state; u2 an active, verified account without 2FA *)
InitLogin ==
    /\ clock = 0
    /\ \E a \in BOOLEAN, v \in BOOLEAN :
         users = [u \in UserIds |->
                    IF u = "u1"
                    THEN [password |-> "pwA", is_active |-> a, is_verified |-> v]
                    ELSE [password |-> "pwB", is_active |-> TRUE, is_verified |-> TRUE]]
    /\ \E sec \in {EmptySecurity, TwoFAOn("u1")} :
         security = [u \in UserIds |-> IF u = "u1" THEN sec ELSE EmptySecurity]
    /\ nextRaw = 0
    /\ issued = [u \in UserIds |-> [k \in Kinds |-> NoIssue]]
    /\ generated = {}
    /\ jwts = {}
    /\ failed = {}
    /\ spent = {}
    /\ rows = AllRows
    /\ outbox = {}
    /\ calls = NoCalls
    /\ blacklist = {}
    /\ last = NoCall

(* What is true of a login's inputs when it is made *)
LoginFacts(email, password) ==
    [ password_ok |-> email \in UserIds /\ users[email].password = password,
      active |-> email \in UserIds /\ users[email].is_active,
      verified |-> email \in UserIds /\ users[email].is_verified,
      twofa |-> email \in UserIds /\ security[email].is_2fa_enabled ]

(* A code the authenticator of the account's stored secret shows now or one
   step away *)
CodeCurrentlyValid(u, code) ==
    /\ u \in UserIds
    /\ security[u].totp_secret # 0
    /\ \E k \in (clock - 1)..(clock + 1) : code = <<security[u].totp_secret, k>>

IsStepUpToken(t) == t \in jwts /\ t.by = "login_2fa"

(* What is true of a step-up attempt's inputs when it is made *)
StepUpFacts(t, code) ==
    [ stepup |-> IsStepUpToken(t),
      in_ttl |-> t.exp > clock,
      code_valid |-> CodeCurrentlyValid(t.user_id, code),
      user |-> t.user_id ]

(* LoginView.post -> LoginService.login_user *)
Login(email, password) ==
    LET r == login_user(email, password) IN
    /\ r[2] # {} => NextSerial <= MaxJwts
    /\ jwts' = jwts \cup r[2]
    /\ last' = [op |-> "login", arg |-> email, result |-> r[1], tokens |-> r[2],
                pre |-> LoginFacts(email, password)]
    /\ UNCHANGED <<clock, users, security, nextRaw, issued, generated, failed, spent, rows, outbox, calls, blacklist>>

(* Verify2FAView refusing a step-up token once it was used with a wrong code *)
Verify2FAView_lockout(t, code) ==
    LET r == IF ViewPermits(StepUpView, t) /\ t.serial \notin failed
             THEN verify_2fa_and_issue_tokens(JWTAuthentication(t), code)
             ELSE <<"rejected", {}>>
    IN
    /\ r[2] # {} => NextSerial <= MaxJwts
    /\ jwts' = jwts \cup r[2]
    /\ failed' = IF r[1] = "AuthenticationFailedException"
                 THEN failed \cup {t.serial} ELSE failed
    /\ last' = [op |-> StepUpView, arg |-> t.serial, result |-> r[1], tokens |-> r[2],
                pre |-> StepUpFacts(t, code)]
    /\ UNCHANGED <<clock, users, security, nextRaw, issued, generated, spent, rows, outbox, calls, blacklist>>

(* Verify2FAView.post: permission Is2FAToken, then the service *)
Verify2FAView(t, code) ==
    LET r == IF ViewPermits(StepUpView, t)
             THEN verify_2fa_and_issue_tokens(JWTAuthentication(t), code)
             ELSE <<"rejected", {}>>
    IN
    /\ r[2] # {} => NextSerial <= MaxJwts
    /\ jwts' = jwts \cup r[2]
    /\ failed' = IF r[1] = "AuthenticationFailedException"
                 THEN failed \cup {t.serial} ELSE failed
    /\ last' = [op |-> StepUpView, arg |-> t.serial, result |-> r[1], tokens |-> r[2],
                pre |-> StepUpFacts(t, code)]
    /\ UNCHANGED <<clock, users, security, nextRaw, issued, generated, spent, rows, outbox, calls, blacklist>>

(* CurrentUserView.get: permission IsAuthenticated, then a read of the profile *)
CurrentUserView(t) ==
    /\ last' = [op |-> "current-user", arg |-> t.serial,
                result |-> IF ViewPermits("current-user", t) THEN "profile" ELSE "rejected",
                tokens |-> {}, pre |-> NoFacts]
    /\ UNCHANGED <<clock, users, security, nextRaw, issued, generated, jwts, failed, spent, rows, outbox, calls, blacklist>>

(* The clock moves by single TOTP steps during the first MaxSteps steps, and
   by the lifetime of a step-up token in one jump *)
AdvanceStep ==
    /\ clock < MaxSteps
    /\ clock' = clock + 1
    /\ UNCHANGED <<users, security, nextRaw, issued, generated, jwts, failed, last, spent, rows, outbox, calls, blacklist>>

AdvanceLifetime ==
    /\ clock <= MaxSteps
    /\ clock' = clock + TwoFALifetimeSteps
    /\ UNCHANGED <<users, security, nextRaw, issued, generated, jwts, failed, last, spent, rows, outbox, calls, blacklist>>

(* The codes a client may send: those the authenticator of u1 shows around
   now, early and late ones included, and one for another secret *)
Codes == { TotpAt(TotpSecretOf("u1"), k) : k \in (clock - 2)..(clock + 2) }
            \cup { TotpAt(TotpSecretOf("u2"), clock) }

Bearers == jwts \cup {NoJwt}

NextLogin ==
    \/ \E e \in Emails : \E p \in LoginPasswords : Login(e, p)
    \/ \E t \in Bearers : \E c \in Codes : Verify2FAView(t, c)
    \/ \E t \in Bearers : CurrentUserView(t)
    \/ AdvanceStep
    \/ AdvanceLifetime

SpecLogin == InitLogin /\ [][NextLogin]_vars

----------------------------------------------------------------------------
(* Properties of login and the step-up *)

(* C2: a step-up token issued by Login opens no view but the step-up
   verification: every session view rejects a request that carries it. *)
C2_StepUpTokenOnlyStepUp ==
    /\ \A t \in jwts : IsStepUpToken(t) =>
            \A view \in SessionViews : ~ViewPermits(view, t)
    /\ (last.op \in SessionViews /\ \E t \in jwts : IsStepUpToken(t) /\ t.serial = last.arg)
            => last.result = "rejected"

(* The outcome the gates give when taken in the stated order: credentials
   (the account exists and the password matches), active, verified, 2FA *)
FirstFailingGate(email, password) ==
    IF ~(email \in UserIds /\ users[email].password = password)
        THEN "AuthenticationRequiredException"
    ELSE IF ~users[email].is_active THEN "InactiveUserException"
    ELSE IF ~users[email].is_verified THEN "InvalidTokenException"
    ELSE IF security[email].is_2fa_enabled THEN "requires_2fa"
    ELSE "tokens"

(* C3: Login returns the outcome of the first failing gate, taken in the
   order credentials, active, verified, 2FA; a failing Login issues no token
   and changes no stored state. *)
C3_LoginFirstFailingGate ==
    [][ \A e \in Emails : \A p \in LoginPasswords :
          Login(e, p) =>
            /\ last'.result = FirstFailingGate(e, p)
            /\ last'.result \notin {"requires_2fa", "tokens"} =>
                  /\ last'.tokens = {}
                  /\ UNCHANGED <<users, security, jwts>> ]_vars

SessionPair(tokens, u) ==
    /\ Cardinality(tokens) = 2
    /\ \E a \in tokens : a.token_type = "access" /\ a.type = "none" /\ a.user_id = u
    /\ \E r \in tokens : r.token_type = "refresh" /\ r.type = "none" /\ r.user_id = u

(* C4: for an active, verified account with correct credentials Login returns
   an access and a refresh token iff 2FA is disabled; with 2FA enabled it
   returns only the step-up token. *)
C4_SessionIffNo2FA ==
    (last.op = "login" /\ last.pre.password_ok /\ last.pre.active /\ last.pre.verified)
    => /\ last.tokens \subseteq jwts
       /\ IF last.pre.twofa
          THEN /\ last.result = "requires_2fa"
               /\ Cardinality(last.tokens) = 1
               /\ \A t \in last.tokens : t.type = "2fa" /\ t.user_id = last.arg
          ELSE /\ last.result = "tokens"
               /\ SessionPair(last.tokens, last.arg)

C4_Witness ==
    /\ last.op = "login"
    /\ last.result = "requires_2fa"
    /\ \E t \in last.tokens : t.type = "2fa"

(* C5: StepUpVerify issues a session only for a code that is valid when it is
   presented, and fails with AuthenticationFailed, issuing nothing, for an
   invalid one; every session token of a 2FA-enabled account was issued by a
   successful StepUpVerify. *)
C5_SessionNeedsTotp ==
    /\ \A t \in jwts :
          (t.type = "none" /\ security[t.user_id].is_2fa_enabled) => t.by = "verify_2fa"
    /\ last.op = StepUpView =>
          /\ last.tokens # {} => (last.pre.stepup /\ last.pre.code_valid)
          /\ (last.pre.stepup /\ last.pre.in_ttl /\ ~last.pre.code_valid) =>
                (last.result = "AuthenticationFailedException" /\ last.tokens = {})

C5_Witness ==
    /\ last.op = StepUpView
    /\ last.result = "AuthenticationFailedException"
    /\ \E t \in jwts : t.by = "verify_2fa"

(* C6: a step-up token that was presented with wrong codes still works: an
   attempt with the same token, within its lifetime, and a valid code issues
   a session. *)
C6_RetryAfterFailure ==
    (last.op = StepUpView /\ last.pre.stepup /\ last.pre.in_ttl /\ last.pre.code_valid)
    => /\ last.result = "tokens"
       /\ SessionPair(last.tokens, last.pre.user)

C6_Witness ==
    /\ last.op = StepUpView
    /\ last.result = "tokens"
    /\ last.arg \in failed

----------------------------------------------------------------------------
(* Password reset: ForgotPasswordService and ResetPasswordService *)

(* django validate_password(new_password, user=user) under
   AUTH_PASSWORD_VALIDATORS *)
validate_password(password) == password \in Passwords

(* The writes of the block committed one by one (no transaction) *)
transaction_autocommit(before, writes, failAt) ==
    IF failAt = 0 THEN writes[Len(writes)]
    ELSE IF failAt = 1 THEN before
    ELSE writes[failAt - 1]

(* with transaction.atomic(): `writes` is the store after each write of the
   block, failAt the write that raises (0: none).  The block commits all of
   its writes, or none when one raises. *)
transaction_atomic(before, writes, failAt) ==
    IF failAt = 0 THEN writes[Len(writes)] ELSE before

(* The rows UserSecurity.objects.filter(forgot_password_token=hashed,
   forgot_password_expiry__gt=now) selects *)
UnexpiredMatches(hashed, now) ==
    { u \in UserIds : /\ security[u].forgot_password_token = hashed
                      /\ security[u].forgot_password_expiry > now }

ResetOutcome(result, u, us, secs) ==
    [result |-> result, user |-> u, users |-> us, security |-> secs]

(* reset_password that leaves the secret in place *)
reset_password_keep_secret(raw, new_password, failAt) ==
    LET found == UnexpiredMatches(hash_token(raw), clock) IN
    IF found = {} THEN ResetOutcome("InvalidTokenException", "none", users, security)
    ELSE
      LET u == CHOOSE x \in found : TRUE IN
      IF ~validate_password(new_password)
      THEN ResetOutcome("ValidationException", u, users, security)
      ELSE
        LET before == [users |-> users, security |-> security]
            w1 == [before EXCEPT !.users[u].password = new_password]
            db == transaction_atomic(before, <<w1, w1>>, failAt)
        IN ResetOutcome(IF failAt = 0 THEN "user" ELSE "InternalServerException",
                        u, db.users, db.security)

(* reset_password looking the token up without the expiry filter *)
reset_password_no_expiry(raw, new_password, failAt) ==
    LET found == { x \in UserIds : security[x].forgot_password_token = hash_token(raw) } IN
    IF found = {} THEN ResetOutcome("InvalidTokenException", "none", users, security)
    ELSE
      LET u == CHOOSE x \in found : TRUE IN
      IF ~validate_password(new_password)
      THEN ResetOutcome("ValidationException", u, users, security)
      ELSE
        LET before == [users |-> users, security |-> security]
            w1 == [before EXCEPT !.users[u].password = new_password]
            w2 == [w1 EXCEPT !.security[u] = clear_forgot_password_token(@)]
            db == transaction_atomic(before, <<w1, w2>>, failAt)
        IN ResetOutcome(IF failAt = 0 THEN "user" ELSE "InternalServerException",
                        u, db.users, db.security)

(* ResetPasswordService.reset_password: the outcome and the store it leaves.
   The lookup takes the first unexpired row holding the hash; the new
   password is validated; the password write and the clearing of the secret
   are the two writes of one transaction. *)
reset_password(raw, new_password, failAt) ==
    LET found == UnexpiredMatches(hash_token(raw), clock) IN
    IF found = {} THEN ResetOutcome("InvalidTokenException", "none", users, security)
    ELSE
      LET u == CHOOSE x \in found : TRUE IN
      IF ~validate_password(new_password)
      THEN ResetOutcome("ValidationException", u, users, security)
      ELSE
        LET before == [users |-> users, security |-> security]
            w1 == [before EXCEPT !.users[u].password = new_password]
            w2 == [w1 EXCEPT !.security[u] = clear_forgot_password_token(@)]
            db == transaction_atomic(before, <<w1, w2>>, failAt)
        IN ResetOutcome(IF failAt = 0 THEN "user" ELSE "InternalServerException",
                        u, db.users, db.security)

(* Accounts as the store may hold them: u1 active or deactivated, u2 active *)
InitReset ==
    /\ clock = 0
    /\ \E a \in BOOLEAN :
         users = [u \in UserIds |->
                    [password |-> "pwA", is_active |-> IF u = "u1" THEN a ELSE TRUE,
                     is_verified |-> TRUE]]
    /\ security = [u \in UserIds |-> EmptySecurity]
    /\ nextRaw = 0
    /\ issued = [u \in UserIds |-> [k \in Kinds |-> NoIssue]]
    /\ generated = {}
    /\ jwts = {}
    /\ failed = {}
    /\ spent = {}
    /\ rows = AllRows
    /\ outbox = {}
    /\ calls = NoCalls
    /\ blacklist = {}
    /\ last = NoCall

(* The reset secret the account of `raw` holds, as the history has it *)
OwnersOf(raw) ==
    { u \in UserIds : issued[u]["forgot_password"].live
                        /\ issued[u]["forgot_password"].raw = raw }

ResetExpiresAt(u) ==
    issued[u]["forgot_password"].at + PASSWORD_RESET_EXPIRY_HOURS * StepsPerHour

(* What is true of a reset's inputs when it is made, and the store as it
   was then *)
ResetFacts(raw, new_password, failAt) ==
    [ replay |-> raw \in spent,
      unknown |-> \A u \in UserIds : <<u, "forgot_password", raw>> \notin generated,
      past_expiry |-> \E u \in OwnersOf(raw) : clock > ResetExpiresAt(u),
      in_ttl |-> \E u \in OwnersOf(raw) : clock < ResetExpiresAt(u),
      owner_active |-> \E u \in OwnersOf(raw) : users[u].is_active,
      new_password |-> new_password,
      tx_fails |-> failAt # 0,
      users |-> users,
      security |-> security ]

(* The store the transactions work on *)
Store == [users |-> users, security |-> security, rows |-> rows]

(* core.email.services.send_email: keyword-only parameters to_email,
   template_id, dynamic_data and the optional subject.  A call with other
   keywords, or without a required one, raises TypeError; a failure of the
   provider raises RuntimeError. *)
SendEmailParams == {"to_email", "template_id", "dynamic_data", "subject"}
SendEmailRequired == {"to_email", "template_id", "dynamic_data"}

send_email(kwargs, provider_ok) ==
    IF ~(kwargs \subseteq SendEmailParams /\ SendEmailRequired \subseteq kwargs)
    THEN "TypeError"
    ELSE IF provider_ok THEN "sent" ELSE "RuntimeError"

Mail(to, kind, raw) == [to |-> to, kind |-> kind, raw |-> raw]

RegisterOutcome(result, db, committed, mails) ==
    [result |-> result, store |-> db, committed |-> committed, mails |-> mails]

(* ForgotPasswordService.send_reset_email: silent for an unknown email;
   otherwise the secret is stored in a transaction and, after the commit,
   the mail is sent.  Any exception, of the write or of the mail, leaves as
   InternalServerException; the one of the mail leaves the secret stored. *)
send_reset_email(email, raw, failAt, provider_ok) ==
    IF ~(email \in UserIds /\ rows[email].user)
    THEN RegisterOutcome("ok", Store, FALSE, {})
    ELSE
      LET before == Store
          w1 == [before EXCEPT
                    !.security[email] = generate_forgot_password(@, raw, clock)]
          after == transaction_atomic(before, <<w1>>, failAt)
          sent == send_email({"to_email", "template_id", "dynamic_data"}, provider_ok)
      IN IF failAt # 0
         THEN RegisterOutcome("InternalServerException", after, FALSE, {})
         ELSE IF sent = "sent"
         THEN RegisterOutcome("ok", after, TRUE, {Mail(email, "forgot_password", raw)})
         ELSE RegisterOutcome("InternalServerException", after, TRUE, {})

(* What held of the inputs of a call that notifies *)
NotifyFacts(email, raw, failAt, provider_ok) ==
    [ exists |-> email \in UserIds /\ rows[email].user,
      active |-> email \in UserIds /\ users[email].is_active,
      raw |-> raw,
      failAt |-> failAt,
      provider_ok |-> provider_ok,
      security |-> security,
      outbox |-> outbox ]

(* The effect of a call that generates a secret of `kind` and notifies *)
ApplyNotify(op, kind, email, raw, r, facts) ==
    /\ users' = r.store.users
    /\ security' = r.store.security
    /\ rows' = r.store.rows
    /\ outbox' = outbox \cup r.mails
    /\ nextRaw' = IF r.committed THEN nextRaw + 1 ELSE nextRaw
    /\ issued' = IF r.committed
                 THEN [issued EXCEPT ![email][kind] =
                          [raw |-> raw, at |-> clock, live |-> TRUE]]
                 ELSE issued
    /\ generated' = IF r.committed
                    THEN generated \cup {<<email, kind, raw>>}
                    ELSE generated
    /\ last' = [op |-> op, arg |-> email, result |-> r.result, tokens |-> {},
                pre |-> facts]
    /\ UNCHANGED <<clock, jwts, failed, spent, calls, blacklist>>

ForgotPasswordService(email, failAt, mail_ok) ==
    LET raw == token_urlsafe
        r == send_reset_email(email, raw, failAt, mail_ok)
    IN /\ r.committed => nextRaw < MaxResetRequests
       /\ ApplyNotify("forgot_password", "forgot_password", email, raw, r,
                      NotifyFacts(email, raw, failAt, mail_ok))

(* The service with a store whose write succeeds *)
ForgotPassword(email, mail_ok) == ForgotPasswordService(email, 0, mail_ok)

(* ResetPasswordView.post -> ResetPasswordService.reset_password *)
ResetPassword(raw, new_password, failAt) ==
    LET r == reset_password(raw, new_password, failAt) IN
    /\ users' = r.users
    /\ security' = r.security
    /\ spent' = IF r.result = "user" THEN spent \cup {raw} ELSE spent
    /\ issued' = IF r.result = "user"
                 THEN [issued EXCEPT ![r.user]["forgot_password"].live = FALSE]
                 ELSE issued
    /\ last' = [op |-> "reset_password", arg |-> raw, result |-> r.result,
                tokens |-> {}, pre |-> ResetFacts(raw, new_password, failAt)]
    /\ UNCHANGED <<clock, nextRaw, generated, jwts, failed, rows, outbox, calls, blacklist>>

NewPasswords == {"pwB", WeakPassword}
FailPoints == 0..2      \* no write fails, user.save fails, security.save fails

NextReset ==
    \/ \E e \in Emails : ForgotPassword(e, TRUE)   \* a failing mail: SpecNotify
    \/ \E raw \in RawTokens : \E pw \in NewPasswords : \E f \in FailPoints :
          ResetPassword(raw, pw, f)
    \/ AdvanceHour

SpecReset == InitReset /\ [][NextReset]_vars

----------------------------------------------------------------------------
(* Properties of password reset *)

(* The store is as it was when the last call was made *)
ResetWroteNothing == users = last.pre.users /\ security = last.pre.security

(* C7: a reset token is single-use: a ResetPassword with a raw token with
   which a reset already succeeded fails with InvalidTokenException and
   leaves the stored passwords (and secrets) unchanged. *)
C7_ResetTokenSingleUse ==
    (last.op = "reset_password" /\ last.pre.replay) =>
        /\ last.result = "InvalidTokenException"
        /\ ResetWroteNothing

(* A spent raw token presented again with a policy-conforming password *)
C7_Witness ==
    /\ last.op = "reset_password"
    /\ last.pre.replay
    /\ last.pre.new_password \in Passwords
    /\ last.arg \in spent
    /\ last.result = "InvalidTokenException"

(* C8: the password write and the clearing of the reset secret happen
   together or not at all: a ResetPassword either writes nothing, or sets the
   password and clears the secret of the same account; when a write of the
   transaction fails it ends in InternalServerException with nothing written. *)
C8_ResetAtomic ==
    last.op = "reset_password" =>
        /\ \/ ResetWroteNothing /\ last.result # "user"
           \/ \E u \in UserIds :
                /\ last.result = "user"
                /\ last.pre.security[u].forgot_password_token = hash_token(last.arg)
                /\ users = [last.pre.users EXCEPT ![u].password = last.pre.new_password]
                /\ security = [last.pre.security EXCEPT
                                  ![u].forgot_password_token = NullToken,
                                  ![u].forgot_password_expiry = NullTime]
        /\ (last.pre.tx_fails /\ last.pre.in_ttl /\ last.pre.new_password \in Passwords)
              => (last.result = "InternalServerException" /\ ResetWroteNothing)

(* A reset whose transaction failed on a password that differs from the
   stored one: the old password and the unexpired secret are both in place *)
C8_Witness ==
    /\ last.op = "reset_password"
    /\ last.result = "InternalServerException"
    /\ \E u \in UnexpiredMatches(hash_token(last.arg), clock) :
          users[u].password # last.pre.new_password

(* C9: ResetPassword with a raw token whose stored secret has passed its
   expiry, or with a raw token no generate returned (the empty one included),
   fails with InvalidTokenException and writes nothing: password, stored hash
   and stored expiry stay as they were. *)
C9_ExpiredOrUnknownInert ==
    (last.op = "reset_password" /\ (last.pre.past_expiry \/ last.pre.unknown)) =>
        /\ last.result = "InvalidTokenException"
        /\ ResetWroteNothing

(* An expired secret was presented and is still stored *)
C9_Witness ==
    /\ last.op = "reset_password"
    /\ last.pre.past_expiry
    /\ last.result = "InvalidTokenException"
    /\ \E u \in UserIds : /\ security[u].forgot_password_token = hash_token(last.arg)
                          /\ security[u].forgot_password_expiry < clock

(* C10: ResetPassword with a valid, unexpired reset token of an inactive
   account fails with InvalidTokenException and leaves the password and the
   stored secret unchanged. *)
C10_ResetRechecksActive ==
    (last.op = "reset_password" /\ last.pre.in_ttl /\ ~last.pre.owner_active) =>
        /\ last.result = "InvalidTokenException"
        /\ ResetWroteNothing

----------------------------------------------------------------------------
(* Registration and email verification: RegisterView, VerifyEmailService,
   the OAuth callback, and the admin form (the other path by which an
   account gets verified) *)

NoRows == [user |-> FALSE, security |-> FALSE, presence |-> FALSE]

(* The columns of a User row that does not exist (never read) *)
BlankUser == [password |-> "none", is_active |-> TRUE, is_verified |-> FALSE]

(* User.save() of a new row, followed by its post_save receiver
   create_user_relations: the UserSecurity and UserPresence rows *)
InsertUser(db, u, row) ==
    [db EXCEPT !.users[u] = row, !.rows[u].user = TRUE]

InsertSecurity(db, u) ==
    IF db.rows[u].security THEN db
    ELSE [db EXCEPT !.security[u] = EmptySecurity, !.rows[u].security = TRUE]

InsertPresence(db, u) ==
    [db EXCEPT !.rows[u].presence = TRUE]

(* RegisterService.create_email_verification: get_or_create the security
   row, store the hash of a fresh raw token and its expiry *)
create_email_verification(db, u, raw, now) ==
    LET d == InsertSecurity(db, u) IN
    [d EXCEPT !.security[u] = generate_email_verification_token(@, raw, now)]

(* The rows UserSecurity.objects.filter(email_verification_token=hashed,
   email_verification_expiry__gt=now) selects *)
UnexpiredVerifications(hashed, now) ==
    { u \in UserIds : /\ rows[u].security
                      /\ security[u].email_verification_token = hashed
                      /\ security[u].email_verification_expiry > now }

(* verify_email that succeeds again on a verified account *)
verify_email_idempotent(raw, failAt) ==
    LET found == UnexpiredVerifications(hash_token(raw), clock) IN
    IF found = {} THEN ResetOutcome("InvalidTokenException", "none", users, security)
    ELSE
      LET u == CHOOSE x \in found : TRUE
          before == Store
          w1 == [before EXCEPT !.users[u].is_verified = TRUE]
          w2 == [w1 EXCEPT !.security[u] = clear_email_verification_token(@)]
          db == transaction_atomic(before, <<w1, w2>>, failAt)
      IN ResetOutcome(IF failAt = 0 THEN "security" ELSE "DatabaseError",
                      u, db.users, db.security)

(* verify_email with its two writes outside a transaction *)
verify_email_unwrapped(raw, failAt) ==
    LET found == UnexpiredVerifications(hash_token(raw), clock) IN
    IF found = {} THEN ResetOutcome("InvalidTokenException", "none", users, security)
    ELSE
      LET u == CHOOSE x \in found : TRUE IN
      IF users[u].is_verified
      THEN ResetOutcome("OperationNotAllowedException", u, users, security)
      ELSE
        LET before == Store
            w1 == [before EXCEPT !.users[u].is_verified = TRUE]
            w2 == [w1 EXCEPT !.security[u] = clear_email_verification_token(@)]
            db == transaction_autocommit(before, <<w1, w2>>, failAt)
        IN ResetOutcome(IF failAt = 0 THEN "security" ELSE "DatabaseError",
                        u, db.users, db.security)

(* verify_email that leaves the secret in place *)
verify_email_keep_secret(raw, failAt) ==
    LET found == UnexpiredVerifications(hash_token(raw), clock) IN
    IF found = {} THEN ResetOutcome("InvalidTokenException", "none", users, security)
    ELSE
      LET u == CHOOSE x \in found : TRUE
          before == Store
          w1 == [before EXCEPT !.users[u].is_verified = TRUE]
          db == transaction_atomic(before, <<w1, w1>>, failAt)
      IN ResetOutcome(IF failAt = 0 THEN "security" ELSE "DatabaseError",
                      u, db.users, db.security)

(* VerifyEmailService.verify_email: the outcome and the store it leaves.
   A failing write of the transaction propagates as the database error. *)
verify_email(raw, failAt) ==
    LET found == UnexpiredVerifications(hash_token(raw), clock) IN
    IF found = {} THEN ResetOutcome("InvalidTokenException", "none", users, security)
    ELSE
      LET u == CHOOSE x \in found : TRUE IN
      IF users[u].is_verified
      THEN ResetOutcome("OperationNotAllowedException", u, users, security)
      ELSE
        LET before == Store
            w1 == [before EXCEPT !.users[u].is_verified = TRUE]
            w2 == [w1 EXCEPT !.security[u] = clear_email_verification_token(@)]
            db == transaction_atomic(before, <<w1, w2>>, failAt)
        IN ResetOutcome(IF failAt = 0 THEN "security" ELSE "DatabaseError",
                        u, db.users, db.security)

NewUser(password) == [password |-> password, is_active |-> TRUE, is_verified |-> FALSE]

(* What happens after the commit of a registration: "ok" the mail is handed
   to the provider, "fail" the provider fails, "crash" the process stops
   before the dispatch *)
AfterCommit == {"ok", "fail", "crash"}

(* RegisterView.post with the mail sent inside the transaction *)
register_mail_in_transaction(email, password, raw, failAt, after) ==
    IF rows[email].user \/ ~validate_password(password)
    THEN RegisterOutcome("ValidationError", Store, FALSE, {})
    ELSE
      LET before == Store
          w1 == InsertUser(before, email, NewUser(password))
          w2 == InsertSecurity(w1, email)
          w3 == InsertPresence(w2, email)
          w4 == create_email_verification(w3, email, raw, clock)
          sent == IF after = "ok"
                  THEN send_email({"to_email", "template_id", "dynamic_data"}, TRUE)
                  ELSE "RuntimeError"
          ok == failAt = 0 /\ sent = "sent"
      IN RegisterOutcome(IF ok THEN "created" ELSE "InternalServerError",
                         IF ok THEN w4 ELSE before, ok,
                         IF sent = "sent" THEN {Mail(email, "email_verification", raw)} ELSE {})

(* RegisterView.post with its writes outside a transaction *)
register_unwrapped(email, password, raw, failAt, after) ==
    IF rows[email].user \/ ~validate_password(password)
    THEN RegisterOutcome("ValidationError", Store, FALSE, {})
    ELSE
      LET before == Store
          w1 == InsertUser(before, email, NewUser(password))
          w2 == InsertSecurity(w1, email)
          w3 == InsertPresence(w2, email)
          w4 == create_email_verification(w3, email, raw, clock)
          db == transaction_autocommit(before, <<w1, w2, w3, w4>>, failAt)
      IN IF failAt # 0 THEN RegisterOutcome("InternalServerError", db, FALSE, {})
         ELSE IF after = "crash" THEN RegisterOutcome("crashed", db, TRUE, {})
         ELSE LET sent == send_email({"to_email", "template_id", "dynamic_data"}, after = "ok")
              IN RegisterOutcome("created", db, TRUE,
                    IF sent = "sent" THEN {Mail(email, "email_verification", raw)} ELSE {})

(* RegisterView.post: the serializer (unique email, password policy), then
   one transaction with the writes user row, security row and presence row
   (the post_save receiver) and the verification secret; after the commit
   the mail, whose failure is logged only *)
register(email, password, raw, failAt, after) ==
    IF rows[email].user \/ ~validate_password(password)
    THEN RegisterOutcome("ValidationError", Store, FALSE, {})
    ELSE
      LET before == Store
          w1 == InsertUser(before, email, NewUser(password))
          w2 == InsertSecurity(w1, email)
          w3 == InsertPresence(w2, email)
          w4 == create_email_verification(w3, email, raw, clock)
          db == transaction_atomic(before, <<w1, w2, w3, w4>>, failAt)
      IN IF failAt # 0 THEN RegisterOutcome("InternalServerError", db, FALSE, {})
         ELSE IF after = "crash" THEN RegisterOutcome("crashed", db, TRUE, {})
         ELSE LET sent == send_email({"to_email", "template_id", "dynamic_data"}, after = "ok")
              IN RegisterOutcome("created", db, TRUE,
                    IF sent = "sent" THEN {Mail(email, "email_verification", raw)} ELSE {})

(* No account yet *)
InitAccount ==
    /\ clock = 0
    /\ users = [u \in UserIds |-> BlankUser]
    /\ security = [u \in UserIds |-> EmptySecurity]
    /\ nextRaw = 0
    /\ issued = [u \in UserIds |-> [k \in Kinds |-> NoIssue]]
    /\ generated = {}
    /\ jwts = {}
    /\ failed = {}
    /\ spent = {}
    /\ rows = [u \in UserIds |-> NoRows]
    /\ outbox = {}
    /\ calls = NoCalls
    /\ blacklist = {}
    /\ last = NoCall

RegisterFacts(email, raw, failAt, after) ==
    [ existed |-> rows[email].user,
      raw |-> raw,
      tx_fails |-> failAt # 0,
      after |-> after,
      store |-> Store,
      outbox |-> outbox ]

(* RegisterView.post *)
RegisterView(email, password, failAt, after) ==
    LET raw == token_urlsafe
        r == register(email, password, raw, failAt, after)
    IN
    /\ nextRaw < MaxTokens
    /\ users' = r.store.users
    /\ security' = r.store.security
    /\ rows' = r.store.rows
    /\ outbox' = outbox \cup r.mails
    /\ nextRaw' = IF r.committed THEN nextRaw + 1 ELSE nextRaw
    /\ issued' = IF r.committed
                 THEN [issued EXCEPT ![email]["email_verification"] =
                          [raw |-> raw, at |-> clock, live |-> TRUE]]
                 ELSE issued
    /\ generated' = IF r.committed
                    THEN generated \cup {<<email, "email_verification", raw>>}
                    ELSE generated
    /\ last' = [op |-> "register", arg |-> email, result |-> r.result, tokens |-> {},
                pre |-> RegisterFacts(email, raw, failAt, after)]
    /\ UNCHANGED <<clock, jwts, failed, spent, calls, blacklist>>

VerificationOwners(raw) ==
    { u \in UserIds : issued[u]["email_verification"].live
                        /\ issued[u]["email_verification"].raw = raw }

VerificationExpiresAt(u) ==
    issued[u]["email_verification"].at + EMAIL_VERIFICATION_EXPIRY_HOURS * StepsPerHour

(* What is true of a verification's raw token when it is presented, and the
   store as it was then *)
VerifyFacts(raw, failAt) ==
    [ replay |-> raw \in spent,
      in_ttl |-> \E u \in VerificationOwners(raw) : clock < VerificationExpiresAt(u),
      verified |-> \E u \in VerificationOwners(raw) : users[u].is_verified,
      tx_fails |-> failAt # 0,
      users |-> users,
      security |-> security ]

(* VerifyEmailView.post -> VerifyEmailService.verify_email *)
VerifyEmail(raw, failAt) ==
    LET r == verify_email(raw, failAt) IN
    /\ users' = r.users
    /\ security' = r.security
    /\ spent' = IF r.result = "security" THEN spent \cup {raw} ELSE spent
    /\ issued' = IF r.result = "security"
                 THEN [issued EXCEPT ![r.user]["email_verification"].live = FALSE]
                 ELSE issued
    /\ last' = [op |-> "verify_email", arg |-> raw, result |-> r.result, tokens |-> {},
                pre |-> VerifyFacts(raw, failAt)]
    /\ UNCHANGED <<clock, nextRaw, generated, jwts, failed, rows, outbox, calls, blacklist>>

(* GoogleLoginCallbackView.get -> GoogleOAuthService.handle_callback for the
   Google account `email`. User has no field login_type (it is a column of
   UserSecurity), so get_or_create(email=email, defaults={..., "login_type"})
   raises FieldError when the account is missing, and for an existing
   account user.save(update_fields=[..., "login_type"]) raises ValueError;
   the atomic block is rolled back and the except clause turns either into
   InternalServerException. Nothing is written. *)
GoogleCallback(email) ==
    /\ last' = [op |-> "google_callback", arg |-> email,
                result |-> "InternalServerException", tokens |-> {}, pre |-> NoFacts]
    /\ UNCHANGED <<clock, users, security, rows, nextRaw, issued, generated, jwts, failed, spent, outbox, calls, blacklist>>

(* UserAdmin (Django admin): the change form of an account lists is_verified
   among its fields; a staff member ticks it and saves *)
UserAdminMarkVerified(email) ==
    /\ rows[email].user
    /\ ~users[email].is_verified
    /\ users' = [users EXCEPT ![email].is_verified = TRUE]
    /\ last' = [op |-> "admin_save", arg |-> email, result |-> "saved",
                tokens |-> {}, pre |-> NoFacts]
    /\ UNCHANGED <<clock, security, rows, nextRaw, issued, generated, jwts, failed, spent, outbox, calls, blacklist>>

(* ResendEmailView.post: ResendEmailSerializer.validate_email (the
   security row of the email must exist and the account be unverified), the
   active check, then one transaction that stores a fresh secret and, still
   inside it, calls send_email with the keywords to_email, subject,
   template_name and context; any exception rolls back and gives 500 *)
resend_email_view(email, raw, failAt, provider_ok) ==
    IF ~(email \in UserIds /\ rows[email].user /\ rows[email].security)
    THEN RegisterOutcome("ValidationError: No account found with this email.", Store, FALSE, {})
    ELSE IF users[email].is_verified
    THEN RegisterOutcome("ValidationError: Email is already verified.", Store, FALSE, {})
    ELSE IF ~users[email].is_active
    THEN RegisterOutcome("Forbidden", Store, FALSE, {})
    ELSE
      LET before == Store
          w1 == [before EXCEPT
                    !.security[email].email_verification_token = hash_token(raw),
                    !.security[email].email_verification_expiry = clock + ViewSecretLifetimeSteps]
          sent == send_email({"to_email", "subject", "template_name", "context"}, provider_ok)
          ok == failAt = 0 /\ sent = "sent"
      IN RegisterOutcome(IF ok THEN "ok" ELSE "InternalServerError",
                         IF ok THEN w1 ELSE before, ok,
                         IF ok THEN {Mail(email, "email_verification", raw)} ELSE {})

ResendFacts(email, raw, failAt, provider_ok) ==
    [ exists |-> email \in UserIds /\ rows[email].user,
      verified |-> email \in UserIds /\ users[email].is_verified,
      active |-> email \in UserIds /\ users[email].is_active,
      raw |-> raw,
      tx_fails |-> failAt # 0,
      provider_ok |-> provider_ok,
      store |-> Store,
      outbox |-> outbox ]

ResendEmailView(email, failAt, provider_ok) ==
    LET raw == token_urlsafe
        r == resend_email_view(email, raw, failAt, provider_ok)
    IN
    /\ nextRaw < MaxTokens
    /\ users' = r.store.users
    /\ security' = r.store.security
    /\ rows' = r.store.rows
    /\ outbox' = outbox \cup r.mails
    /\ nextRaw' = IF r.committed THEN nextRaw + 1 ELSE nextRaw
    /\ issued' = IF r.committed
                 THEN [issued EXCEPT ![email]["email_verification"] =
                          [raw |-> raw, at |-> clock, live |-> TRUE]]
                 ELSE issued
    /\ generated' = IF r.committed
                    THEN generated \cup {<<email, "email_verification", raw>>}
                    ELSE generated
    /\ last' = [op |-> "resend_email", arg |-> email, result |-> r.result, tokens |-> {},
                pre |-> ResendFacts(email, raw, failAt, provider_ok)]
    /\ UNCHANGED <<clock, jwts, failed, spent, calls, blacklist>>

RegisterPasswords == {"pwA"}
KnownRaws == 0..nextRaw             \* the empty raw and those generated so far
ResendEmails == {"u1", "nobody"}
RegisterFailPoints == 0..4  \* none, user row, security row, presence row, secret

NextAccount ==
    \/ \E e \in UserIds : \E pw \in RegisterPasswords : \E f \in RegisterFailPoints :
          \E after \in AfterCommit : RegisterView(e, pw, f, after)
    \/ \E raw \in KnownRaws : \E f \in FailPoints : VerifyEmail(raw, f)
    \/ \E e \in UserIds : GoogleCallback(e)
    \/ \E e \in UserIds : UserAdminMarkVerified(e)
    \/ \E e \in ResendEmails : \E f \in 0..1 : \E ok \in BOOLEAN : ResendEmailView(e, f, ok)
    \/ AdvanceLifetime
    \/ AdvanceDay

SpecAccount == InitAccount /\ [][NextAccount]_vars

----------------------------------------------------------------------------
(* Properties of email verification *)

VerifyWroteNothing == users = last.pre.users /\ security = last.pre.security

(* C11: for an unverified account with an active verification secret the
   VerifyEmail with its raw token succeeds and sets is_verified; every later
   VerifyEmail with a raw token that already verified an account fails with
   InvalidTokenException. *)
C11_VerifyOnceThenInvalid ==
    last.op = "verify_email" =>
        /\ (last.pre.in_ttl /\ ~last.pre.verified /\ ~last.pre.tx_fails) =>
              /\ last.result = "security"
              /\ last.arg \in spent
              /\ \E u \in UserIds : /\ ~last.pre.users[u].is_verified
                                    /\ users[u].is_verified
                                    /\ last.pre.security[u].email_verification_token
                                          = hash_token(last.arg)
        /\ last.pre.replay =>
              /\ last.result = "InvalidTokenException"
              /\ VerifyWroteNothing

(* The raw token that verified an account is presented again *)
C11_Witness ==
    /\ last.op = "verify_email"
    /\ last.pre.replay
    /\ last.arg \in spent
    /\ last.result = "InvalidTokenException"

(* C12: VerifyEmail with a still-active token of an account that is already
   verified fails with OperationNotAllowedException and changes neither
   is_verified nor the stored secret. *)
C12_VerifiedNotAllowed ==
    (last.op = "verify_email" /\ last.pre.in_ttl /\ last.pre.verified) =>
        /\ last.result = "OperationNotAllowedException"
        /\ VerifyWroteNothing

(* An account marked verified in the admin while its secret was pending,
   then presented with that secret *)
C12_Witness ==
    /\ last.op = "verify_email"
    /\ last.result = "OperationNotAllowedException"
    /\ \E u \in UnexpiredVerifications(hash_token(last.arg), clock) : users[u].is_verified

(* C13: VerifyEmail sets is_verified and clears the secret together or not
   at all: a call either writes nothing, or marks the unverified owner of the
   secret verified and clears that secret; when a write of the transaction
   fails nothing is persisted. *)
C13_VerifyAtomic ==
    last.op = "verify_email" =>
        /\ \/ VerifyWroteNothing /\ last.result # "security"
           \/ \E u \in UserIds :
                /\ last.result = "security"
                /\ ~last.pre.users[u].is_verified
                /\ last.pre.security[u].email_verification_token = hash_token(last.arg)
                /\ users = [last.pre.users EXCEPT ![u].is_verified = TRUE]
                /\ security = [last.pre.security EXCEPT
                                  ![u].email_verification_token = NullToken,
                                  ![u].email_verification_expiry = NullTime]
        /\ (last.pre.tx_fails /\ last.pre.in_ttl /\ ~last.pre.verified) =>
              (last.result = "DatabaseError" /\ VerifyWroteNothing)

(* A verification whose transaction failed: the account is still unverified
   and its secret still active *)
C13_Witness ==
    /\ last.op = "verify_email"
    /\ last.result = "DatabaseError"
    /\ \E u \in UnexpiredVerifications(hash_token(last.arg), clock) : ~users[u].is_verified

----------------------------------------------------------------------------
(* Properties of registration and resend *)

RegisterWroteNothing ==
    users = last.pre.store.users /\ security = last.pre.store.security
        /\ rows = last.pre.store.rows

(* The account of the last call has its three rows and, stored, the secret
   that call generated with the lifetime of the settings *)
RegisteredWithSecret ==
    /\ rows[last.arg] = [user |-> TRUE, security |-> TRUE, presence |-> TRUE]
    /\ ~users[last.arg].is_verified
    /\ issued[last.arg]["email_verification"].live
    /\ issued[last.arg]["email_verification"].raw = last.pre.raw
    /\ security[last.arg].email_verification_token = hash_token(last.pre.raw)
    /\ security[last.arg].email_verification_expiry = VerificationExpiresAt(last.arg)

(* C14: Register is all-or-nothing over the user row, the security row, the
   presence row and the verification secret: in every state an account has
   all three rows or none, a Register that commits leaves the account with
   its rows and an active secret, and a Register that fails at any write
   leaves the store as it was. *)
C14_RegisterAllOrNothing ==
    /\ \A u \in UserIds : rows[u] \in {NoRows, AllRows[u]}
    /\ last.op = "register" =>
          /\ last.result \in {"created", "crashed"} =>
                (~last.pre.existed /\ ~last.pre.tx_fails /\ RegisteredWithSecret)
          /\ last.result \notin {"created", "crashed"} => RegisterWroteNothing
          /\ last.pre.tx_fails => last.result \notin {"created", "crashed"}

(* A registration that failed inside its transaction: no row of the account *)
C14_Witness ==
    /\ last.op = "register"
    /\ last.pre.tx_fails
    /\ last.result = "InternalServerError"
    /\ rows[last.arg] = NoRows

(* C15: a verification mail is dispatched only for a committed registration
   (its account exists and its raw token was committed), never for one
   rolled back; a dispatch that fails leaves Register successful and the
   committed account and secret in place. *)
C15_DispatchAfterCommit ==
    /\ \A m \in outbox :
          rows[m.to].user /\ <<m.to, m.kind, m.raw>> \in generated
    /\ last.op = "register" =>
          /\ last.result \notin {"created", "crashed"} => outbox = last.pre.outbox
          /\ (~last.pre.existed /\ ~last.pre.tx_fails /\ last.pre.after = "fail") =>
                /\ last.result = "created"
                /\ RegisteredWithSecret
                /\ outbox = last.pre.outbox

(* A registration whose mail failed *)
C15_Witness ==
    /\ last.op = "register"
    /\ last.pre.after = "fail"
    /\ last.result = "created"
    /\ \A m \in outbox : m.to # last.arg

(* C16: an account left registered and unverified (its mail never went out)
   is recoverable: ResendVerification for its email, with the store and the
   provider working, stores a new active secret and dispatches its raw
   value. *)
C16_ResendRecovers ==
    (last.op = "resend_email" /\ last.pre.exists /\ ~last.pre.verified /\ last.pre.active
        /\ ~last.pre.tx_fails /\ last.pre.provider_ok) =>
        /\ last.result = "ok"
        /\ security[last.arg].email_verification_token = hash_token(last.pre.raw)
        /\ Mail(last.arg, "email_verification", last.pre.raw) \in outbox

(* C20: ResendVerification for an email without an account returns silently,
   as for an existing unverified account, and dispatches no mail. *)
C20_ResendSilentForUnknown ==
    (last.op = "resend_email" /\ ~last.pre.exists) =>
        /\ last.result = "ok"
        /\ outbox = last.pre.outbox

----------------------------------------------------------------------------
(* Secrets sent by mail: the forgot-password and resend-verification
   services and the views of the two endpoints *)

(* ForgotPasswordView.post: generic 200 for an unknown email; otherwise the
   secret is stored with a lifetime of 30 minutes in a transaction (500 when
   it fails), then send_email is called in a try/except that only logs, and
   the generic 200 is returned *)
forgot_password_view(email, raw, failAt, provider_ok) ==
    IF ~(email \in UserIds /\ rows[email].user)
    THEN RegisterOutcome("ok", Store, FALSE, {})
    ELSE
      LET before == Store
          w1 == [before EXCEPT
                    !.security[email].forgot_password_token = hash_token(raw),
                    !.security[email].forgot_password_expiry = clock + ViewSecretLifetimeSteps]
          after == transaction_atomic(before, <<w1>>, failAt)
          sent == send_email({"to_email", "subject", "template_name", "context"}, provider_ok)
      IN IF failAt # 0
         THEN RegisterOutcome("InternalServerError", after, FALSE, {})
         ELSE RegisterOutcome("ok", after, TRUE,
                              IF sent = "sent" THEN {Mail(email, "forgot_password", raw)} ELSE {})

(* resend_verification_email without the check of is_active *)
resend_verification_email_any_account(email, raw, failAt, provider_ok) ==
    LET before == Store
        w1 == [before EXCEPT
                  !.security[email] = generate_email_verification_token(@, raw, clock)]
        sent == send_email({"to_email", "template_id", "dynamic_data"}, provider_ok)
    IN IF failAt # 0
       THEN RegisterOutcome("InternalServerException", before, FALSE, {})
       ELSE IF sent = "sent"
       THEN RegisterOutcome("ok", w1, TRUE, {Mail(email, "email_verification", raw)})
       ELSE RegisterOutcome("InternalServerException", w1, TRUE, {})

(* ResendEmailService.resend_verification_email(user, security), for the
   account of `email`: refused for an inactive account; otherwise the secret
   is stored in a transaction and the mail sent after it; any exception
   leaves as InternalServerException *)
resend_verification_email(email, raw, failAt, provider_ok) ==
    IF ~users[email].is_active
    THEN RegisterOutcome("PermissionDeniedException", Store, FALSE, {})
    ELSE
      LET before == Store
          w1 == [before EXCEPT
                    !.security[email] = generate_email_verification_token(@, raw, clock)]
          after == transaction_atomic(before, <<w1>>, failAt)
          sent == send_email({"to_email", "template_id", "dynamic_data"}, provider_ok)
      IN IF failAt # 0
         THEN RegisterOutcome("InternalServerException", after, FALSE, {})
         ELSE IF sent = "sent"
         THEN RegisterOutcome("ok", after, TRUE, {Mail(email, "email_verification", raw)})
         ELSE RegisterOutcome("InternalServerException", after, TRUE, {})

(* u1 is registered and unverified, u2 is verified *)
InitNotify ==
    /\ clock = 0
    /\ \E a \in BOOLEAN :
         users = [u \in UserIds |->
                    [password |-> "pwA", is_active |-> IF u = "u1" THEN a ELSE TRUE,
                     is_verified |-> u = "u2"]]
    /\ security = [u \in UserIds |-> EmptySecurity]
    /\ nextRaw = 0
    /\ issued = [u \in UserIds |-> [k \in Kinds |-> NoIssue]]
    /\ generated = {}
    /\ jwts = {}
    /\ failed = {}
    /\ spent = {}
    /\ rows = AllRows
    /\ outbox = {}
    /\ calls = NoCalls
    /\ blacklist = {}
    /\ last = NoCall

ForgotPasswordView(email, failAt, provider_ok) ==
    LET raw == token_urlsafe
        r == forgot_password_view(email, raw, failAt, provider_ok)
    IN /\ nextRaw < MaxTokens
       /\ ApplyNotify("forgot_password_view", "forgot_password", email, raw, r,
                      NotifyFacts(email, raw, failAt, provider_ok))

ResendVerificationEmail(email, failAt, mail_ok) ==
    LET raw == token_urlsafe
        r == resend_verification_email(email, raw, failAt, mail_ok)
    IN /\ email \in UserIds /\ rows[email].user /\ rows[email].security
       /\ nextRaw < MaxTokens
       /\ ApplyNotify("resend_verification_email", "email_verification", email, raw, r,
                      NotifyFacts(email, raw, failAt, mail_ok))

WriteFailPoints == 0..1     \* the one write of the transaction succeeds or fails

(* The calls are made for the unverified account and for an email without
   an account *)
NextNotify ==
    \/ \E e \in ResendEmails : \E f \in WriteFailPoints : \E ok \in BOOLEAN :
          ForgotPasswordService(e, f, ok)
    \/ \E e \in ResendEmails : \E f \in WriteFailPoints : \E ok \in BOOLEAN :
          ForgotPasswordView(e, f, ok)
    \/ \E e \in ResendEmails \cap UserIds : \E f \in WriteFailPoints : \E ok \in BOOLEAN :
          ResendVerificationEmail(e, f, ok)
    \/ AdvanceHour

SpecNotify == InitNotify /\ [][NextNotify]_vars

(* C17: ForgotPassword gives the caller the same result whether or not the
   email has an account: the result of every call equals the result the same
   call gives, with the same store and mail conditions, for an email without
   an account. *)
C17_ForgotSameForUnknown ==
    /\ last.op = "forgot_password" =>
          last.result = send_reset_email("nobody", last.pre.raw, last.pre.failAt,
                                         last.pre.provider_ok).result
    /\ last.op = "forgot_password_view" =>
          last.result = forgot_password_view("nobody", last.pre.raw, last.pre.failAt,
                                             last.pre.provider_ok).result

(* The kind of secret the last call generates *)
KindOfLast ==
    IF last.op \in {"forgot_password", "forgot_password_view"}
    THEN "forgot_password" ELSE "email_verification"

(* C19: when the secret of a ForgotPassword or ResendVerification call was
   committed and its mail failed, the call still reports success and the
   committed secret stays stored. *)
C19_MailFailureSwallowed ==
    (/\ last.op \in {"forgot_password", "forgot_password_view", "resend_verification_email"}
     /\ <<last.arg, KindOfLast, last.pre.raw>> \in generated
     /\ Mail(last.arg, KindOfLast, last.pre.raw) \notin outbox) =>
        /\ last.result = "ok"
        /\ issued[last.arg][KindOfLast] =
              [raw |-> last.pre.raw, at |-> issued[last.arg][KindOfLast].at, live |-> TRUE]
        /\ hash_token(last.pre.raw) \in
              {security[last.arg].forgot_password_token,
               security[last.arg].email_verification_token}

----------------------------------------------------------------------------
(* Two concurrent calls of ForgotPasswordService.send_reset_email for the
   same email, step by step: the lookup of the user, the SELECT ... FOR
   UPDATE of the security row, the save inside the transaction, the commit,
   the mail *)

ConcEmail == "u1"

InitForgotConc ==
    /\ clock = 0
    /\ users = [u \in UserIds |->
                  [password |-> "pwA", is_active |-> TRUE, is_verified |-> TRUE]]
    /\ security = [u \in UserIds |-> EmptySecurity]
    /\ nextRaw = 0
    /\ issued = [u \in UserIds |-> [k \in Kinds |-> NoIssue]]
    /\ generated = {}
    /\ jwts = {}
    /\ failed = {}
    /\ spent = {}
    /\ rows = AllRows
    /\ outbox = {}
    /\ calls = NoCalls
    /\ blacklist = {}
    /\ last = NoCall

(* User.objects.filter(email=email).first(): the user is found.  `met`
   records that the other call held the row lock when this one started. *)
Lookup(p) ==
    /\ calls.proc[p].pc = "idle"
    /\ calls' = [calls EXCEPT !.proc[p].pc = "found",
                              !.proc[p].met = calls.lock # "none"]
    /\ UNCHANGED <<clock, users, security, nextRaw, issued, generated, jwts, failed, spent, rows, outbox, blacklist, last>>

(* get_or_create(user=user) without select_for_update: no wait for the lock *)
SelectForUpdate_unlocked(p) ==
    /\ calls.proc[p].pc = "found"
    /\ calls' = [calls EXCEPT !.lock = p, !.proc[p].pc = "locked"]
    /\ UNCHANGED <<clock, users, security, nextRaw, issued, generated, jwts, failed, spent, rows, outbox, blacklist, last>>

(* select_for_update().get_or_create(user=user) inside transaction.atomic():
   waits while another transaction holds the lock of the row *)
SelectForUpdate(p) ==
    /\ calls.proc[p].pc = "found"
    /\ calls.lock = "none"
    /\ calls' = [calls EXCEPT !.lock = p, !.proc[p].pc = "locked"]
    /\ UNCHANGED <<clock, users, security, nextRaw, issued, generated, jwts, failed, spent, rows, outbox, blacklist, last>>

(* secrets.token_urlsafe, timezone.now() and security.save(update_fields):
   when the save fails the transaction is rolled back, the lock released
   and the call leaves with InternalServerException *)
Save(p, failAt) ==
    /\ calls.proc[p].pc = "locked"
    /\ nextRaw < MaxTokens
    /\ IF failAt = 0
       THEN /\ calls' = [calls EXCEPT !.proc[p].pc = "saved",
                                      !.proc[p].raw = token_urlsafe,
                                      !.proc[p].now = clock]
            /\ nextRaw' = nextRaw + 1
       ELSE /\ calls' = [calls EXCEPT !.proc[p].pc = "done",
                                      !.proc[p].result = "InternalServerException",
                                      !.lock = "none"]
            /\ UNCHANGED nextRaw
    /\ UNCHANGED <<clock, users, security, issued, generated, jwts, failed, spent, rows, outbox, blacklist, last>>

(* The end of the atomic block: the token and the expiry of the call become
   the row's, and the lock is released *)
Commit(p) ==
    LET c == calls.proc[p] IN
    /\ c.pc = "saved"
    /\ security' = [security EXCEPT ![ConcEmail] =
                       generate_forgot_password(@, c.raw, c.now)]
    /\ issued' = [issued EXCEPT ![ConcEmail]["forgot_password"] =
                     [raw |-> c.raw, at |-> c.now, live |-> TRUE]]
    /\ generated' = generated \cup {<<ConcEmail, "forgot_password", c.raw>>}
    /\ calls' = [calls EXCEPT !.proc[p].pc = "committed",
                              !.lock = "none",
                              !.order = Append(@, p)]
    /\ UNCHANGED <<clock, users, nextRaw, jwts, failed, spent, rows, outbox, blacklist, last>>

(* send_email after the commit; its failure leaves as
   InternalServerException *)
SendResetMail(p, provider_ok) ==
    LET c == calls.proc[p]
        sent == send_email({"to_email", "template_id", "dynamic_data"}, provider_ok)
    IN
    /\ c.pc = "committed"
    /\ outbox' = IF sent = "sent"
                 THEN outbox \cup {Mail(ConcEmail, "forgot_password", c.raw)}
                 ELSE outbox
    /\ calls' = [calls EXCEPT !.proc[p].pc = "done",
                              !.proc[p].result =
                                  IF sent = "sent" THEN "ok" ELSE "InternalServerException"]
    /\ UNCHANGED <<clock, users, security, nextRaw, issued, generated, jwts, failed, spent, rows, blacklist, last>>

NextForgotConc ==
    \/ \E p \in Procs : Lookup(p)
    \/ \E p \in Procs : SelectForUpdate(p)
    \/ \E p \in Procs : \E f \in WriteFailPoints : Save(p, f)
    \/ \E p \in Procs : Commit(p)
    \/ \E p \in Procs : \E ok \in BOOLEAN : SendResetMail(p, ok)
    \/ AdvanceStep
    \/ AdvanceHour

SpecForgotConc == InitForgotConc /\ [][NextForgotConc]_vars

(* The call that wrote last *)
LastWriter == calls.order[Len(calls.order)]

(* C18: with two concurrent ForgotPassword calls for one email the writes
   are serialized by the row lock: at most one call is between its lock and
   its commit; once a call has committed, the stored hash and expiry are
   those of the call that committed last, the only raw value that verifies
   is the one that call generated, it verifies until its expiry, and it is
   the raw value that call dispatches. *)
C18_ConcurrentForgotSerialized ==
    LET sec == security[ConcEmail]
        inTx == {p \in Procs : calls.proc[p].pc \in {"locked", "saved"}}
    IN
    /\ Cardinality(inTx) <= 1
    /\ \A p \in Procs : (calls.lock = p) <=> (p \in inTx)
    /\ calls.order = <<>> => sec.forgot_password_token = NullToken
    /\ calls.order # <<>> =>
          LET w == calls.proc[LastWriter] IN
          /\ sec.forgot_password_token = hash_token(w.raw)
          /\ sec.forgot_password_expiry = w.now + PASSWORD_RESET_EXPIRY_HOURS * StepsPerHour
          /\ \A raw \in 1..MaxTokens :
                verify_forgot_password_token(sec, raw, clock) => raw = w.raw
          /\ clock <= sec.forgot_password_expiry =>
                verify_forgot_password_token(sec, w.raw, clock)
          /\ w.result = "ok" => Mail(ConcEmail, "forgot_password", w.raw) \in outbox
          /\ \A m \in outbox : \E p \in Procs :
                calls.proc[p].raw = m.raw /\ calls.proc[p].pc = "done"

(* Both calls have committed and finished, one of them having started while
   the other held the lock; the raw value of the last writer verifies and
   the one of the first does not *)
C18_Witness ==
    /\ Len(calls.order) = 2
    /\ \A p \in Procs : calls.proc[p].pc = "done"
    /\ \E p \in Procs : calls.proc[p].met
    /\ verify_forgot_password_token(security[ConcEmail], calls.proc[LastWriter].raw, clock)
    /\ ~verify_forgot_password_token(security[ConcEmail], calls.proc[calls.order[1]].raw, clock)
    /\ Mail(ConcEmail, "forgot_password", calls.proc[LastWriter].raw) \in outbox

----------------------------------------------------------------------------
(* Resend of the verification mail for accounts that are inactive or already
   verified.  An account holds the secret of its registration; it may since
   have been deactivated (BaseModel.soft_delete) or marked verified in the
   admin, which leaves the secret stored. *)

InitResend ==
    /\ clock = 0
    /\ \E a \in BOOLEAN : \E v \in BOOLEAN :
         users = [u \in UserIds |->
                    [password |-> "pwA", is_active |-> IF u = "u1" THEN a ELSE TRUE,
                     is_verified |-> IF u = "u1" THEN v ELSE TRUE]]
    /\ security = [u \in UserIds |->
                     generate_email_verification_token(EmptySecurity, 1, 0)]
    /\ nextRaw = 1
    /\ issued = [u \in UserIds |-> [k \in Kinds |->
                    IF k = "email_verification"
                    THEN [raw |-> 1, at |-> 0, live |-> TRUE] ELSE NoIssue]]
    /\ generated = {<<u, "email_verification", 1>> : u \in UserIds}
    /\ jwts = {}
    /\ failed = {}
    /\ spent = {}
    /\ rows = AllRows
    /\ outbox = {}
    /\ calls = NoCalls
    /\ blacklist = {}
    /\ last = NoCall

NextResend ==
    \/ \E e \in Emails : \E f \in WriteFailPoints : \E ok \in BOOLEAN :
          ResendEmailView(e, f, ok)
    \/ \E e \in UserIds : \E f \in WriteFailPoints : \E ok \in BOOLEAN :
          ResendVerificationEmail(e, f, ok)
    \/ AdvanceHour
    \/ AdvanceDay

SpecResend == InitResend /\ [][NextResend]_vars

(* C21: a resend for an already-verified account is rejected by the endpoint
   and one for an inactive account by the endpoint (403) and by the service
   (PermissionDeniedException); in each case the stored verification hash and
   expiry are those of before and no mail is dispatched. *)
C21_ResendRejectsInactiveVerified ==
    /\ (last.op = "resend_email" /\ last.pre.exists /\ last.pre.verified) =>
          /\ last.result = "ValidationError: Email is already verified."
          /\ security = last.pre.store.security
          /\ outbox = last.pre.outbox
    /\ (last.op = "resend_email" /\ last.pre.exists /\ ~last.pre.verified
            /\ ~last.pre.active) =>
          /\ last.result = "Forbidden"
          /\ security = last.pre.store.security
          /\ outbox = last.pre.outbox
    /\ (last.op = "resend_verification_email" /\ ~last.pre.active) =>
          /\ last.result = "PermissionDeniedException"
          /\ security = last.pre.security
          /\ outbox = last.pre.outbox

(* The service refused an inactive account that holds a secret; the secret
   is still the one of the registration and nothing was mailed *)
C21_Witness ==
    /\ last.op = "resend_verification_email"
    /\ last.result = "PermissionDeniedException"
    /\ security[last.arg].email_verification_token = hash_token(1)
    /\ outbox = {}

----------------------------------------------------------------------------
(* Two-factor management: TwoFactorService.setup_2fa, enable_2fa and
   disable_2fa behind Setup2FAView, Enable2FAView and Disable2FAView, called
   for the authenticated user.  A TOTP secret is a number drawn fresh
   (pyotp.random_base32), 0 is the null column. *)

TwoFAOutcome(result, sec) == [result |-> result, sec |-> sec]

(* UserSecurity.generate_totp_secret *)
generate_totp_secret(sec, secret) == [sec EXCEPT !.totp_secret = secret]

(* setup_2fa that keeps a secret already stored *)
setup_2fa_keep_first(sec, secret, failAt) ==
    IF sec.is_2fa_enabled
    THEN TwoFAOutcome("ValidationException", sec)
    ELSE LET w1 == IF sec.totp_secret = 0 THEN generate_totp_secret(sec, secret) ELSE sec
             after == transaction_atomic(sec, <<w1, w1>>, failAt)
         IN TwoFAOutcome(IF failAt = 0 THEN "secret" ELSE "DatabaseError", after)

(* setup_2fa: refused when 2FA is enabled; otherwise the new secret is
   stored (generate_totp_secret saves, then the service saves) in one
   transaction *)
setup_2fa(sec, secret, failAt) ==
    IF sec.is_2fa_enabled
    THEN TwoFAOutcome("ValidationException", sec)
    ELSE LET w1 == generate_totp_secret(sec, secret)
             after == transaction_atomic(sec, <<w1, w1>>, failAt)
         IN TwoFAOutcome(IF failAt = 0 THEN "secret" ELSE "DatabaseError", after)

(* enable_2fa without the check of the code *)
enable_2fa_unchecked(sec, code, now, failAt) ==
    IF sec.is_2fa_enabled
    THEN TwoFAOutcome("ValidationException", sec)
    ELSE LET w1 == [sec EXCEPT !.is_2fa_enabled = TRUE]
             after == transaction_atomic(sec, <<w1>>, failAt)
         IN TwoFAOutcome(IF failAt = 0 THEN "success" ELSE "DatabaseError", after)

enable_2fa(sec, code, now, failAt) ==
    IF sec.is_2fa_enabled
    THEN TwoFAOutcome("ValidationException", sec)
    ELSE IF ~verify_totp(sec, code, now)
    THEN TwoFAOutcome("AuthenticationFailedException", sec)
    ELSE LET w1 == [sec EXCEPT !.is_2fa_enabled = TRUE]
             after == transaction_atomic(sec, <<w1>>, failAt)
         IN TwoFAOutcome(IF failAt = 0 THEN "success" ELSE "DatabaseError", after)

disable_2fa(sec, code, now, failAt) ==
    IF ~sec.is_2fa_enabled
    THEN TwoFAOutcome("ValidationException", sec)
    ELSE IF ~verify_totp(sec, code, now)
    THEN TwoFAOutcome("AuthenticationFailedException", sec)
    ELSE LET w1 == [sec EXCEPT !.is_2fa_enabled = FALSE, !.totp_secret = 0]
             after == transaction_atomic(sec, <<w1>>, failAt)
         IN TwoFAOutcome(IF failAt = 0 THEN "success" ELSE "DatabaseError", after)

InitTwoFactor ==
    /\ clock = 0
    /\ users = [u \in UserIds |->
                  [password |-> "pwA", is_active |-> TRUE, is_verified |-> TRUE]]
    /\ security = [u \in UserIds |-> EmptySecurity]
    /\ nextRaw = 0
    /\ issued = [u \in UserIds |-> [k \in Kinds |-> NoIssue]]
    /\ generated = {}
    /\ jwts = {}
    /\ failed = {}
    /\ spent = {}
    /\ rows = AllRows
    /\ outbox = {}
    /\ calls = NoCalls
    /\ blacklist = {}
    /\ last = NoCall

(* What held of a two-factor call when it was made *)
TwoFAFacts(u, code, failAt) ==
    [ enabled |-> security[u].is_2fa_enabled,
      secret |-> security[u].totp_secret,
      code_valid |-> verify_totp(security[u], code, clock),
      code_secret |-> code[1],
      tx_fails |-> failAt # 0,
      security |-> security ]

Setup2FAView(u, failAt) ==
    LET secret == nextRaw + 1
        r == setup_2fa(security[u], secret, failAt)
    IN
    /\ nextRaw < MaxTokens
    /\ security' = [security EXCEPT ![u] = r.sec]
    /\ nextRaw' = IF r.result = "secret" THEN nextRaw + 1 ELSE nextRaw
    /\ generated' = IF r.result = "secret"
                    THEN generated \cup {<<u, "totp", secret>>} ELSE generated
    /\ last' = [op |-> "setup_2fa", arg |-> u, result |-> r.result, tokens |-> {},
                pre |-> TwoFAFacts(u, TotpAt(secret, clock), failAt)]
    /\ UNCHANGED <<clock, users, issued, jwts, failed, spent, rows, outbox, calls, blacklist>>

Enable2FAView(u, code, failAt) ==
    LET r == enable_2fa(security[u], code, clock, failAt) IN
    /\ security' = [security EXCEPT ![u] = r.sec]
    /\ last' = [op |-> "enable_2fa", arg |-> u, result |-> r.result, tokens |-> {},
                pre |-> TwoFAFacts(u, code, failAt)]
    /\ UNCHANGED <<clock, users, nextRaw, issued, generated, jwts, failed, spent, rows, outbox, calls, blacklist>>

Disable2FAView(u, code, failAt) ==
    LET r == disable_2fa(security[u], code, clock, failAt) IN
    /\ security' = [security EXCEPT ![u] = r.sec]
    /\ last' = [op |-> "disable_2fa", arg |-> u, result |-> r.result, tokens |-> {},
                pre |-> TwoFAFacts(u, code, failAt)]
    /\ UNCHANGED <<clock, users, nextRaw, issued, generated, jwts, failed, spent, rows, outbox, calls, blacklist>>

(* The codes a caller presents: those an authenticator shows now, or showed
   two steps ago, for any secret ever handed to the account *)
TwoFACodes(u) ==
    { TotpAt(s, k) : s \in {g[3] : g \in {h \in generated : h[1] = u /\ h[2] = "totp"}},
                     k \in {clock - 2, clock} }
        \cup { TotpAt(0, clock) }

NextTwoFactor ==
    \/ \E u \in UserIds : \E f \in WriteFailPoints : Setup2FAView(u, f)
    \/ \E u \in UserIds : \E c \in TwoFACodes(u) : \E f \in WriteFailPoints :
          Enable2FAView(u, c, f)
    \/ \E u \in UserIds : \E c \in TwoFACodes(u) : \E f \in WriteFailPoints :
          Disable2FAView(u, c, f)
    \/ AdvanceStep

SpecTwoFactor == InitTwoFactor /\ [][NextTwoFactor]_vars

(* The secrets ever handed to the account by setup, and the latest of them *)
TotpSecretsOf(u) == {g[3] : g \in {h \in generated : h[1] = u /\ h[2] = "totp"}}
LatestTotpSecret(u) == CHOOSE s \in TotpSecretsOf(u) : \A t \in TotpSecretsOf(u) : t <= s

(* C22: a setup stores the secret it hands out, replacing the one before;
   after a second setup before enabling, a code of the first secret (an
   earlier secret of the account, not the latest) does not enable 2FA: the
   call fails on the code and 2FA stays disabled. *)
C22_SecondSetupReplacesSecret ==
    /\ (last.op = "setup_2fa" /\ last.result = "secret") =>
          security[last.arg].totp_secret = last.pre.code_secret
    /\ (/\ last.op = "enable_2fa"
        /\ ~last.pre.enabled
        /\ last.pre.code_secret \in TotpSecretsOf(last.arg)
        /\ last.pre.code_secret # LatestTotpSecret(last.arg)) =>
          /\ last.result = "AuthenticationFailedException"
          /\ ~security[last.arg].is_2fa_enabled
          /\ security = last.pre.security

(* Two setups were made before enabling and a code of the first secret,
   current at the time of the call, was refused *)
C22_Witness ==
    /\ last.op = "enable_2fa"
    /\ last.result = "AuthenticationFailedException"
    /\ Cardinality(TotpSecretsOf(last.arg)) = 2
    /\ last.pre.code_secret \in TotpSecretsOf(last.arg)
    /\ last.pre.code_secret # LatestTotpSecret(last.arg)
    /\ last.pre.secret = LatestTotpSecret(last.arg)
    /\ ~security[last.arg].is_2fa_enabled

(* C23: enable succeeds only when 2FA was not enabled and the code was valid
   for the stored secret, disable only when 2FA was enabled and the code was
   valid; every setup, enable or disable that does not succeed leaves
   is_2fa_enabled and the stored secret as they were. *)
C23_TwoFAGuards ==
    /\ (last.op = "enable_2fa" /\ last.result = "success") =>
          (~last.pre.enabled /\ last.pre.code_valid
              /\ security[last.arg].is_2fa_enabled
              /\ security[last.arg].totp_secret = last.pre.secret)
    /\ (last.op = "disable_2fa" /\ last.result = "success") =>
          (last.pre.enabled /\ last.pre.code_valid
              /\ ~security[last.arg].is_2fa_enabled)
    /\ (last.op = "setup_2fa" /\ last.result = "secret") => ~last.pre.enabled
    /\ (last.op \in {"setup_2fa", "enable_2fa", "disable_2fa"}
            /\ last.result \notin {"success", "secret"}) =>
          security = last.pre.security
    /\ (last.op = "enable_2fa" /\ ~last.pre.tx_fails
            /\ ~last.pre.enabled /\ last.pre.code_valid) => last.result = "success"
    /\ (last.op = "disable_2fa" /\ ~last.pre.tx_fails
            /\ last.pre.enabled /\ last.pre.code_valid) => last.result = "success"

(* A disable refused on the code while 2FA is enabled *)
C23_Witness ==
    /\ last.op = "disable_2fa"
    /\ last.result = "AuthenticationFailedException"
    /\ last.pre.enabled
    /\ security[last.arg].is_2fa_enabled
    /\ security[last.arg].totp_secret # 0

----------------------------------------------------------------------------
(* Sessions: LogoutView -> LogoutService.logout_user and RefreshTokenView ->
   RefreshTokenService.refresh_access_token, over the refresh tokens that
   Login hands out.  rest_framework_simplejwt.token_blacklist is installed,
   so RefreshToken(...) verifies signature, token_type, exp and the
   blacklist, and token.blacklist() adds the token's jti. *)

(* RefreshToken(raw) parsing without the blacklist check *)
RefreshToken_unchecked_blacklist(t) ==
    /\ t \in jwts
    /\ t.token_type = "refresh"
    /\ t.exp > clock

(* RefreshToken(raw): TRUE when the token parses and verifies, FALSE when
   TokenError is raised *)
RefreshToken(t) ==
    /\ t \in jwts
    /\ t.token_type = "refresh"
    /\ t.exp > clock
    /\ t.serial \notin blacklist

(* token.access_token: a new access token with the claims of the refresh
   token *)
AccessTokenOf(t) ==
    [token_type |-> "access", type |-> "none", user_id |-> t.user_id,
     exp |-> clock + AccessLifetimeSteps, serial |-> t.serial, by |-> "refresh"]

(* refresh_access_token: << result, the access token issued >> *)
refresh_access_token(t) ==
    IF ~RefreshToken(t)
    THEN <<"InvalidTokenException", {}>>
    ELSE <<"access", {AccessTokenOf(t)}>>

(* logout_user without the comparison of the token's user_id *)
logout_user_any_owner(user, t) ==
    IF ~RefreshToken(t)
    THEN <<"InvalidTokenException: Invalid or expired refresh token.", blacklist>>
    ELSE <<"ok", blacklist \cup {t.serial}>>

(* logout_user: << result, the blacklist afterwards >> *)
logout_user(user, t) ==
    IF ~RefreshToken(t)
    THEN <<"InvalidTokenException: Invalid or expired refresh token.", blacklist>>
    ELSE IF t.user_id # user
    THEN <<"InvalidTokenException: Token does not belong to the user.", blacklist>>
    ELSE <<"ok", blacklist \cup {t.serial}>>

(* Two active, verified accounts without 2FA *)
InitSession ==
    /\ clock = 0
    /\ users = [u \in UserIds |->
                  [password |-> IF u = "u1" THEN "pwA" ELSE "pwB",
                   is_active |-> TRUE, is_verified |-> TRUE]]
    /\ security = [u \in UserIds |-> EmptySecurity]
    /\ nextRaw = 0
    /\ issued = [u \in UserIds |-> [k \in Kinds |-> NoIssue]]
    /\ generated = {}
    /\ jwts = {}
    /\ failed = {}
    /\ spent = {}
    /\ rows = AllRows
    /\ outbox = {}
    /\ calls = NoCalls
    /\ blacklist = {}
    /\ last = NoCall

(* What held of the refresh token presented when the call was made; `caller`
   is the user the bearer token authenticates *)
SessionFacts(caller, t) ==
    [ caller |-> caller,
      subject |-> t.user_id,
      valid |-> RefreshToken(t),
      revoked |-> t.serial \in blacklist,
      exp |-> t.exp,
      blacklist |-> blacklist ]

(* LogoutView.post: permission IsAuthenticated, then the service; the view
   answers 200, or 500 for any exception of the service that is not a
   ValueError (the service raises none that is) *)
LogoutView(bearer, t) ==
    LET caller == JWTAuthentication(bearer)
        r == IF IsAuthenticated(bearer) THEN logout_user(caller, t)
             ELSE <<"rejected", blacklist>>
    IN
    /\ blacklist' = r[2]
    /\ last' = [op |-> "logout", arg |-> t.serial, result |-> r[1], tokens |-> {},
                pre |-> SessionFacts(caller, t)]
    /\ UNCHANGED <<clock, users, security, nextRaw, issued, generated, jwts, failed, spent, rows, outbox, calls>>

(* RefreshTokenView.post: permission AllowAny.  The access token issued is
   recorded with the call; it is not presented again here. *)
RefreshTokenView(t) ==
    LET r == refresh_access_token(t) IN
    /\ last' = [op |-> "refresh", arg |-> t.serial, result |-> r[1], tokens |-> r[2],
                pre |-> SessionFacts("none", t)]
    /\ UNCHANGED <<clock, users, security, nextRaw, issued, generated, jwts, failed, spent, rows, outbox, calls, blacklist>>

(* The lifetime of a refresh token passes *)
AdvanceRefreshLifetime ==
    /\ clock < RefreshLifetimeSteps
    /\ clock' = clock + RefreshLifetimeSteps
    /\ UNCHANGED <<users, security, nextRaw, issued, generated, jwts, failed, last, spent, rows, outbox, calls, blacklist>>

SessionLogins == {<<"u1", "pwA">>, <<"u2", "pwB">>}

(* AdvanceDay is the lifetime of an access token *)
NextSession ==
    \/ \E c \in SessionLogins : Login(c[1], c[2])
    \/ \E b \in Bearers : \E t \in Bearers : LogoutView(b, t)
    \/ \E t \in Bearers : RefreshTokenView(t)
    \/ AdvanceDay
    \/ AdvanceRefreshLifetime

SpecSession == InitSession /\ [][NextSession]_vars

(* C24: the blacklist only grows, and a refresh with a token that was
   blacklisted when the call was made fails with InvalidTokenException and
   issues nothing: once revoked, a refresh token is never usable again. *)
C24_RevokedNeverRefreshes ==
    /\ [](/\ (last.op = "refresh" /\ last.pre.revoked) =>
                (last.result = "InvalidTokenException" /\ last.tokens = {})
          /\ (last.op = "logout" /\ last.result = "ok") => last.arg \in blacklist
          /\ \A t \in jwts : t.serial \in blacklist => ~RefreshToken(t))
    /\ [][blacklist \subseteq blacklist']_vars

(* A refresh refused for a revoked token that has not expired *)
C24_Witness ==
    /\ last.op = "refresh"
    /\ last.pre.revoked
    /\ last.pre.exp > clock
    /\ last.result = "InvalidTokenException"

(* C25: a logout with a valid refresh token of another user fails with
   InvalidTokenException, adds nothing to the blacklist, and the owner can
   still refresh with the token. *)
C25_LogoutForeignToken ==
    (/\ last.op = "logout"
     /\ last.pre.caller # "none"
     /\ last.pre.valid
     /\ last.pre.subject # last.pre.caller) =>
        /\ last.result = "InvalidTokenException: Token does not belong to the user."
        /\ blacklist = last.pre.blacklist
        /\ last.arg \notin blacklist
        /\ \A t \in jwts :
              (t.serial = last.arg /\ t.token_type = "refresh" /\ t.exp > clock) =>
                 refresh_access_token(t)[1] = "access"

(* u1, logged in, presented the unexpired refresh token of u2 *)
C25_Witness ==
    /\ last.op = "logout"
    /\ last.pre.caller # "none"
    /\ last.pre.valid
    /\ last.pre.subject # last.pre.caller
    /\ last.pre.exp > clock
    /\ last.result = "InvalidTokenException: Token does not belong to the user."

----------------------------------------------------------------------------
(* Change of password: ChangePasswordView -> ChangePasswordSerializer.validate
   -> ChangePasswordService.change_password, and the service called on its
   own *)

(* ChangePasswordSerializer.validate without the check of the old password *)
ChangePasswordSerializer_no_old_check(user, old_password, new_password, confirm_password) ==
    IF new_password # confirm_password
    THEN "ValidationError: Passwords do not match."
    ELSE IF users[user].password = new_password
    THEN "ValidationError: New password must be different from the old password."
    ELSE IF ~validate_password(new_password)
    THEN "ValidationError: new_password"
    ELSE "valid"

(* ChangePasswordSerializer.validate for the authenticated user: the old
   password checks, the confirmation matches, the new password is not the
   current one and passes the validators *)
ChangePasswordSerializer(user, old_password, new_password, confirm_password) ==
    IF users[user].password # old_password
    THEN "ValidationError: Old password is incorrect."
    ELSE IF new_password # confirm_password
    THEN "ValidationError: Passwords do not match."
    ELSE IF users[user].password = new_password
    THEN "ValidationError: New password must be different from the old password."
    ELSE IF ~validate_password(new_password)
    THEN "ValidationError: new_password"
    ELSE "valid"

(* ChangePasswordService.change_password: << result, users afterwards >> *)
change_password(user, new_password, failAt) ==
    IF ~users[user].is_active
    THEN <<"InactiveUserException", users>>
    ELSE IF ~validate_password(new_password)
    THEN <<"ValidationException", users>>
    ELSE LET w1 == [users EXCEPT ![user].password = new_password]
             after == transaction_atomic(users, <<w1>>, failAt)
         IN <<IF failAt = 0 THEN "ok" ELSE "InternalServerException", after>>

(* u1 active or not, u2 active; both verified, without 2FA *)
InitPassword ==
    /\ clock = 0
    /\ \E a \in BOOLEAN :
         users = [u \in UserIds |->
                    [password |-> IF u = "u1" THEN "pwA" ELSE "pwB",
                     is_active |-> IF u = "u1" THEN a ELSE TRUE,
                     is_verified |-> TRUE]]
    /\ security = [u \in UserIds |-> EmptySecurity]
    /\ nextRaw = 0
    /\ issued = [u \in UserIds |-> [k \in Kinds |-> NoIssue]]
    /\ generated = {}
    /\ jwts = {}
    /\ failed = {}
    /\ spent = {}
    /\ rows = AllRows
    /\ outbox = {}
    /\ calls = NoCalls
    /\ blacklist = {}
    /\ last = NoCall

(* What held of the inputs of a change of password for `user` *)
PasswordFacts(user, old_password, new_password, confirm_password, failAt) ==
    [ authenticated |-> user # "none",
      active |-> user # "none" /\ users[user].is_active,
      old_ok |-> user # "none" /\ users[user].password = old_password,
      confirm_ok |-> new_password = confirm_password,
      differs |-> user # "none" /\ users[user].password # new_password,
      policy_ok |-> validate_password(new_password),
      new_password |-> new_password,
      tx_fails |-> failAt # 0,
      users |-> users ]

(* ChangePasswordView.post: permission IsAuthenticated, the serializer, then
   the service *)
ChangePasswordView(bearer, old_password, new_password, confirm_password, failAt) ==
    LET user == JWTAuthentication(bearer)
        valid == ChangePasswordSerializer(user, old_password, new_password, confirm_password)
        r == IF ~IsAuthenticated(bearer) THEN <<"rejected", users>>
             ELSE IF valid # "valid" THEN <<valid, users>>
             ELSE change_password(user, new_password, failAt)
    IN
    /\ users' = r[2]
    /\ last' = [op |-> "change_password", arg |-> user, result |-> r[1], tokens |-> {},
                pre |-> PasswordFacts(user, old_password, new_password,
                                      confirm_password, failAt)]
    /\ UNCHANGED <<clock, security, nextRaw, issued, generated, jwts, failed, spent, rows, outbox, calls, blacklist>>

(* ChangePasswordService.change_password(user, new_password) on its own *)
ChangePasswordServiceCall(user, new_password, failAt) ==
    LET r == change_password(user, new_password, failAt) IN
    /\ users' = r[2]
    /\ last' = [op |-> "change_password_service", arg |-> user, result |-> r[1],
                tokens |-> {},
                pre |-> PasswordFacts(user, users[user].password, new_password,
                                      new_password, failAt)]
    /\ UNCHANGED <<clock, security, nextRaw, issued, generated, jwts, failed, spent, rows, outbox, calls, blacklist>>

PasswordInputs == {"pwA", "pwB", WeakPassword}

NextPassword ==
    \/ \E e \in UserIds : \E p \in LoginPasswords : Login(e, p)
    \/ \E b \in Bearers : \E old \in LoginPasswords : \E new \in PasswordInputs :
       \E conf \in {new, "pwA"} : \E f \in WriteFailPoints :
          ChangePasswordView(b, old, new, conf, f)
    \/ \E u \in UserIds : \E new \in PasswordInputs : \E f \in WriteFailPoints :
          ChangePasswordServiceCall(u, new, f)
    \/ AdvanceDay

SpecPassword == InitPassword /\ [][NextPassword]_vars

(* C26: the endpoint changes the stored password exactly when the caller is
   authenticated, the old password matches, the new one is confirmed, differs
   from the current one and passes the policy (and the write succeeds); the
   service refuses an inactive account with InactiveUserException and a
   password that fails the policy; every call that does not succeed leaves
   every stored password unchanged. *)
C26_ChangePasswordGuards ==
    /\ last.op = "change_password" =>
          /\ (last.result = "ok") <=>
                (/\ last.pre.authenticated /\ last.pre.old_ok /\ last.pre.confirm_ok
                 /\ last.pre.differs /\ last.pre.policy_ok /\ ~last.pre.tx_fails)
    /\ last.op = "change_password_service" =>
          /\ ~last.pre.active => last.result = "InactiveUserException"
          /\ last.result = "ok" => (last.pre.active /\ last.pre.policy_ok)
    /\ last.op \in {"change_password", "change_password_service"} =>
          IF last.result = "ok"
          THEN users = [last.pre.users EXCEPT ![last.arg].password = last.pre.new_password]
          ELSE users = last.pre.users

(* The endpoint refused an authenticated caller whose old password was wrong *)
C26_Witness ==
    /\ last.op = "change_password"
    /\ last.pre.authenticated
    /\ ~last.pre.old_ok
    /\ last.pre.differs /\ last.pre.policy_ok /\ last.pre.confirm_ok /\ ~last.pre.tx_fails
    /\ last.result = "ValidationError: Old password is incorrect."
    /\ users = last.pre.users

(***************************************************************************)
(* Roles: ChangeRoleService.execute and ChangeRoleView                      *)
(***************************************************************************)

ROLE_USER == "USER"
ROLE_ADMIN == "ADMIN"
ROLE_SUPERADMIN == "SUPERADMIN"

(* The values of ROLE_CHOICES *)
Roles == {ROLE_USER, ROLE_ADMIN, ROLE_SUPERADMIN}

(* The tiers from lowest to highest, in the order ROLE_CHOICES lists them *)
RoleRank(role) ==
    IF role = ROLE_USER THEN 1 ELSE IF role = ROLE_ADMIN THEN 2 ELSE 3

(* IsSuperAdmin.has_permission for the account `user` ("none": anonymous) *)
IsSuperAdmin(db, user) ==
    user # "none" /\ db[user].role = ROLE_SUPERADMIN

(* ChangeRoleService.execute with the inactive check after the top-tier check *)
execute_top_tier_first(db, actor, user_id, new_role) ==
    IF actor = user_id
    THEN <<"PermissionDeniedException", db>>
    ELSE IF user_id \notin DOMAIN db
    THEN <<"ResourceNotFoundException", db>>
    ELSE IF db[user_id].role = ROLE_SUPERADMIN
    THEN <<"OperationNotAllowedException", db>>
    ELSE IF ~db[user_id].is_active
    THEN <<"InactiveUserException", db>>
    ELSE <<"ok", [db EXCEPT ![user_id].role = new_role]>>

(* ChangeRoleService.execute(actor, user_id, new_role) run without another
   request in between: << result, the user table afterwards >> *)
execute(db, actor, user_id, new_role) ==
    IF actor = user_id
    THEN <<"PermissionDeniedException", db>>
    ELSE IF user_id \notin DOMAIN db
    THEN <<"ResourceNotFoundException", db>>
    ELSE IF ~db[user_id].is_active
    THEN <<"InactiveUserException", db>>
    ELSE IF db[user_id].role = ROLE_SUPERADMIN
    THEN <<"OperationNotAllowedException", db>>
    ELSE <<"ok", [db EXCEPT ![user_id].role = new_role]>>

(* u1 is active, u2 active or not; each holds any of the three roles *)
InitRole ==
    /\ clock = 0
    /\ \E r1 \in Roles : \E r2 \in Roles : \E a \in BOOLEAN :
         users = [u \in UserIds |->
                    [password |-> IF u = "u1" THEN "pwA" ELSE "pwB",
                     is_active |-> IF u = "u1" THEN TRUE ELSE a,
                     is_verified |-> TRUE,
                     role |-> IF u = "u1" THEN r1 ELSE r2]]
    /\ security = [u \in UserIds |-> EmptySecurity]
    /\ nextRaw = 0
    /\ issued = [u \in UserIds |-> [k \in Kinds |-> NoIssue]]
    /\ generated = {}
    /\ jwts = {}
    /\ failed = {}
    /\ spent = {}
    /\ rows = AllRows
    /\ outbox = {}
    /\ calls = NoCalls
    /\ blacklist = {}
    /\ last = NoCall

(* What held of the actor and the target when the call was made *)
RoleFacts(actor, user_id, new_role) ==
    [ authenticated |-> actor # "none",
      actor_role |-> IF actor \in DOMAIN users THEN users[actor].role ELSE "none",
      self |-> actor = user_id,
      exists |-> user_id \in DOMAIN users,
      active |-> user_id \in DOMAIN users /\ users[user_id].is_active,
      target_role |-> IF user_id \in DOMAIN users THEN users[user_id].role ELSE "none",
      new_role |-> new_role,
      users |-> users ]

(* ChangeRoleView.post: permission IsAuthenticated, both fields required,
   then the service with request.user as the actor *)
ChangeRoleView(bearer, user_id, new_role) ==
    LET actor == JWTAuthentication(bearer)
        r == IF ~IsAuthenticated(bearer) THEN <<"rejected", users>>
             ELSE IF user_id = "" \/ new_role = ""
             THEN <<"400: user_id and role are required.", users>>
             ELSE execute(users, actor, user_id, new_role)
    IN
    /\ users' = r[2]
    /\ last' = [op |-> "change_role_view", arg |-> user_id, result |-> r[1],
                tokens |-> {}, pre |-> RoleFacts(actor, user_id, new_role)]
    /\ UNCHANGED <<clock, security, nextRaw, issued, generated, jwts, failed, spent, rows, outbox, calls, blacklist>>

(* ChangeRoleService.execute(actor, user_id, new_role) on its own *)
ChangeRoleServiceCall(actor, user_id, new_role) ==
    LET r == execute(users, actor, user_id, new_role) IN
    /\ users' = r[2]
    /\ last' = [op |-> "change_role", arg |-> user_id, result |-> r[1],
                tokens |-> {}, pre |-> RoleFacts(actor, user_id, new_role)]
    /\ UNCHANGED <<clock, security, nextRaw, issued, generated, jwts, failed, spent, rows, outbox, calls, blacklist>>

(* Target ids: the accounts and a well-formed id no account has *)
TargetIds == UserIds \cup {"nobody"}

NextRole ==
    \/ \E l \in SessionLogins : Login(l[1], l[2])
    \/ \E b \in Bearers : \E t \in TargetIds \cup {""} : \E r \in Roles \cup {""} :
          ChangeRoleView(b, t, r)
    \/ \E a \in UserIds : \E t \in TargetIds : \E r \in Roles :
          ChangeRoleServiceCall(a, t, r)

SpecRole == InitRole /\ [][NextRole]_vars

(* C27: a role is assigned through the endpoint only by an actor whose own
   role is SUPERADMIN, so that no account is raised above the role of a USER
   or ADMIN actor. *)
C27_OnlySuperAdminAssigns ==
    (last.op = "change_role_view" /\ last.result = "ok") =>
        /\ last.pre.actor_role = ROLE_SUPERADMIN
        /\ RoleRank(users[last.arg].role) <= RoleRank(last.pre.actor_role)

(* C29: the service rejects a call whose target is the actor (permission
   denied, whatever else holds of the account), a call whose target id has no
   account (not found) and a call whose target is inactive (inactive user,
   also when the target is a SUPERADMIN); every rejected call leaves every
   role unchanged. *)
C29_ChangeRoleRejections ==
    last.op = "change_role" =>
        /\ last.pre.self => last.result = "PermissionDeniedException"
        /\ (~last.pre.self /\ ~last.pre.exists) =>
              last.result = "ResourceNotFoundException"
        /\ (~last.pre.self /\ last.pre.exists /\ ~last.pre.active) =>
              last.result = "InactiveUserException"
        /\ last.result # "ok" => users = last.pre.users

(* An inactive SUPERADMIN target was refused as inactive, roles unchanged *)
C29_Witness ==
    /\ last.op = "change_role"
    /\ ~last.pre.self /\ last.pre.exists /\ ~last.pre.active
    /\ last.pre.target_role = ROLE_SUPERADMIN
    /\ last.result = "InactiveUserException"
    /\ users = last.pre.users

(***************************************************************************)
(* ChangeRoleService.execute step by step, two requests at a time: the      *)
(* method opens no transaction and takes no row lock, so another request    *)
(* can run between its User.objects.get and its user.save                   *)
(***************************************************************************)

IdleRoleCall ==
    [pc |-> "idle", actor |-> "none", user_id |-> "none", new_role |-> "none",
     seen |-> "none", result |-> "none"]

(* u1 is an active SUPERADMIN; u2 holds any role, active or not *)
InitRoleConc ==
    /\ clock = 0
    /\ \E r2 \in Roles : \E a \in BOOLEAN :
         users = [u \in UserIds |->
                    [password |-> IF u = "u1" THEN "pwA" ELSE "pwB",
                     is_active |-> IF u = "u1" THEN TRUE ELSE a,
                     is_verified |-> TRUE,
                     role |-> IF u = "u1" THEN ROLE_SUPERADMIN ELSE r2]]
    /\ security = [u \in UserIds |-> EmptySecurity]
    /\ nextRaw = 0
    /\ issued = [u \in UserIds |-> [k \in Kinds |-> NoIssue]]
    /\ generated = {}
    /\ jwts = {}
    /\ failed = {}
    /\ spent = {}
    /\ rows = AllRows
    /\ outbox = {}
    /\ calls = [proc |-> [p \in Procs |-> IdleRoleCall], lock |-> "none", order |-> <<>>]
    /\ blacklist = {}
    /\ last = NoCall

(* The request of an authenticated (hence active) actor enters execute: the
   comparison of the two ids, before anything is read *)
EnterChangeRole(p, actor, user_id, new_role) ==
    /\ calls.proc[p].pc = "idle"
    /\ users[actor].is_active
    /\ calls' = [calls EXCEPT !.proc[p] =
                    [pc |-> IF actor = user_id THEN "done" ELSE "entered",
                     actor |-> actor, user_id |-> user_id, new_role |-> new_role,
                     seen |-> "none",
                     result |-> IF actor = user_id
                                THEN "PermissionDeniedException" ELSE "none"]]
    /\ UNCHANGED <<clock, users, security, nextRaw, issued, generated, jwts, failed, spent, rows, outbox, blacklist, last>>

(* User.objects.get(id=user_id) and the two checks of the object it
   returned *)
GetTarget(p) ==
    LET c == calls.proc[p]
        r == execute(users, c.actor, c.user_id, c.new_role)[1]
    IN
    /\ c.pc = "entered"
    /\ calls' = [calls EXCEPT !.proc[p].pc = IF r = "ok" THEN "checked" ELSE "done",
                              !.proc[p].seen = IF c.user_id \in DOMAIN users
                                               THEN users[c.user_id].role ELSE "none",
                              !.proc[p].result = IF r = "ok" THEN "none" ELSE r]
    /\ UNCHANGED <<clock, users, security, nextRaw, issued, generated, jwts, failed, spent, rows, outbox, blacklist, last>>

(* user.role = new_role; user.save(update_fields=["role"]): an UPDATE of the
   role column of the row, whatever it holds by now *)
SaveRole(p) ==
    LET c == calls.proc[p] IN
    /\ c.pc = "checked"
    /\ users' = [users EXCEPT ![c.user_id].role = c.new_role]
    /\ calls' = [calls EXCEPT !.proc[p].pc = "done", !.proc[p].result = "ok"]
    /\ last' = [op |-> "role_write", arg |-> c.user_id, result |-> "ok", tokens |-> {},
                pre |-> [seen_role |-> c.seen,
                         stored_role |-> users[c.user_id].role,
                         new_role |-> c.new_role]]
    /\ UNCHANGED <<clock, security, nextRaw, issued, generated, jwts, failed, spent, rows, outbox, blacklist>>

(* The response is sent; the worker takes the next request *)
ReturnChangeRole(p) ==
    /\ calls.proc[p].pc = "done"
    /\ calls' = [calls EXCEPT !.proc[p] = IdleRoleCall]
    /\ UNCHANGED <<clock, users, security, nextRaw, issued, generated, jwts, failed, spent, rows, outbox, blacklist, last>>

NextRoleConc ==
    \/ \E p \in Procs : \E a \in UserIds : \E t \in TargetIds : \E r \in Roles :
          EnterChangeRole(p, a, t, r)
    \/ \E p \in Procs : GetTarget(p)
    \/ \E p \in Procs : SaveRole(p)
    \/ \E p \in Procs : ReturnChangeRole(p)

SpecRoleConc == InitRoleConc /\ [][NextRoleConc]_vars

(* C28: in every interleaving of ChangeRole calls the role of a SUPERADMIN
   account is never overwritten: a call that finds its (active) target to be
   a SUPERADMIN ends with OperationNotAllowed, and no role write lands on a
   row that holds SUPERADMIN at the moment of the write. *)
C28_SuperAdminNeverOverwritten ==
    /\ \A p \in Procs :
          (calls.proc[p].pc \in {"checked", "done"} /\ calls.proc[p].seen = ROLE_SUPERADMIN
             /\ calls.proc[p].result # "InactiveUserException") =>
                calls.proc[p].result = "OperationNotAllowedException"
    /\ last.op = "role_write" => last.pre.stored_role # ROLE_SUPERADMIN

(***************************************************************************)
(* Account creation, two requests at a time: RegisterView (serializer,      *)
(* then create_user inside transaction.atomic()), UserManager.create_user   *)
(* on its own, and the get_or_create of the Google/GitHub login. Here       *)
(* `users` maps the primary key of each committed row to the row.           *)
(***************************************************************************)

(* str.lower() on the parts of the addresses used here *)
Lower(s) == IF s = "A" THEN "a" ELSE IF s = "X.COM" THEN "x.com" ELSE s

(* Addresses as local part and domain, in both cases *)
EmailInputs == [local : {"a", "A"}, domain : {"x.com", "X.COM"}]

(* BaseUserManager.normalize_email: lower-cases the domain part only *)
normalize_email(email) == [email EXCEPT !.domain = Lower(@)]

(* RegisterSerializer.validate_email: value.strip().lower() *)
validate_email(email) == [local |-> Lower(email.local), domain |-> Lower(email.domain)]

CreatePaths == {"register", "create_user", "oauth"}

(* The email the path stores for the address it is given: the serializer
   lower-cases, _create_user normalizes, get_or_create stores it as given *)
StoredEmail(path, email) ==
    IF path = "register" THEN normalize_email(validate_email(email))
    ELSE IF path = "create_user" THEN normalize_email(email)
    ELSE email

(* The row register and create_user insert (the OAuth path inserts none) *)
NewAccount(path, email) ==
    [email |-> email,
     password |-> "pwA",
     is_active |-> TRUE,
     is_verified |-> FALSE,
     role |-> ROLE_USER]

IdleCreate ==
    [pc |-> "idle", path |-> "none", email |-> "none", stored |-> "none", pk |-> 0,
     fresh |-> FALSE, aborted |-> FALSE, created |-> FALSE, result |-> "none"]

(* A committed row holds the email *)
EmailTaken(email) == \E i \in DOMAIN users : users[i].email = email

(* A table without a unique index on email *)
EmailUnique_dropped(p, email) == "free"

(* email = models.EmailField(unique=True): what the unique index answers to
   an INSERT of `email` by p: it waits for a transaction that has inserted
   the same value and not yet ended, refuses a value a committed row holds *)
EmailUnique(p, email) ==
    IF \E q \in Procs \ {p} :
          calls.proc[q].pc = "inserted" /\ calls.proc[q].stored = email
    THEN "wait"
    ELSE IF EmailTaken(email) THEN "taken" ELSE "free"

(* No account yet *)
InitCreate ==
    /\ clock = 0
    /\ users = << >>
    /\ security = << >>
    /\ nextRaw = 0
    /\ issued = << >>
    /\ generated = {}
    /\ jwts = {}
    /\ failed = {}
    /\ spent = {}
    /\ rows = << >>
    /\ outbox = {}
    /\ calls = [proc |-> [p \in Procs |-> IdleCreate], lock |-> "none", order |-> <<>>]
    /\ blacklist = {}
    /\ last = NoCall

(* A request arrives. RegisterSerializer: UniqueValidator looks the address
   up as it was sent, then validate_email lower-cases it *)
EnterCreate(p, path, email) ==
    LET stored == StoredEmail(path, email)
        refused == path = "register" /\ EmailTaken(email)
    IN
    /\ calls.proc[p].pc = "idle"
    /\ calls' = [calls EXCEPT !.proc[p] =
                    [pc |-> IF refused THEN "done" ELSE "entered",
                     path |-> path, email |-> email, stored |-> stored, pk |-> 0,
                     fresh |-> ~EmailTaken(stored) /\ ~EmailTaken(email), aborted |-> FALSE, created |-> FALSE,
                     result |-> IF refused
                                THEN "ValidationError: Email is already registered."
                                ELSE "none"]]
    /\ UNCHANGED <<clock, users, security, nextRaw, issued, generated, jwts, failed, spent, rows, outbox, blacklist, last>>

(* User.objects.get_or_create(email=email, defaults={..., "login_type"}):
   the get. User has no field login_type, so for a missing row the defaults
   are refused with FieldError before any INSERT, and for a row found the
   following user.save(update_fields=[..., "login_type"]) raises ValueError;
   either way the callback leaves with InternalServerException and no row
   is created or changed *)
GetOrCreateGet(p) ==
    LET c == calls.proc[p] IN
    /\ c.pc = "entered" /\ c.path = "oauth"
    /\ calls' = [calls EXCEPT !.proc[p].pc = "done",
                              !.proc[p].aborted = TRUE,
                              !.proc[p].result = "InternalServerException"]
    /\ UNCHANGED <<clock, users, security, nextRaw, issued, generated, jwts, failed, spent, rows, outbox, blacklist, last>>

(* user.save(): the INSERT, with a new uuid4 as primary key. Refused by the
   unique index it is an IntegrityError: create_user raises it, register
   answers InternalServerException. An INSERT by create_user on its own
   commits at once *)
InsertUser_(p) ==
    LET c == calls.proc[p]
        u == EmailUnique(p, c.stored)
    IN
    /\ c.pc = "entered" /\ c.path # "oauth"
    /\ u # "wait"
    /\ nextRaw < MaxTokens
    /\ IF u = "taken"
       THEN /\ calls' = [calls EXCEPT !.proc[p].pc = "done",
                                      !.proc[p].result =
                                          IF c.path = "register"
                                          THEN "InternalServerException"
                                          ELSE "IntegrityError"]
            /\ UNCHANGED <<users, nextRaw>>
       ELSE /\ nextRaw' = nextRaw + 1
            /\ IF c.path = "create_user"
               THEN /\ users' = (nextRaw + 1 :> NewAccount(c.path, c.stored)) @@ users
                    /\ calls' = [calls EXCEPT !.proc[p].pc = "done",
                                              !.proc[p].pk = nextRaw + 1,
                                              !.proc[p].created = TRUE,
                                              !.proc[p].result = "ok"]
               ELSE /\ calls' = [calls EXCEPT !.proc[p].pc = "inserted",
                                              !.proc[p].pk = nextRaw + 1]
                    /\ UNCHANGED users
    /\ UNCHANGED <<clock, security, issued, generated, jwts, failed, spent, rows, outbox, blacklist, last>>

(* The end of transaction.atomic(): the row becomes visible *)
CommitCreate(p) ==
    LET c == calls.proc[p] IN
    /\ c.pc = "inserted"
    /\ users' = (c.pk :> NewAccount(c.path, c.stored)) @@ users
    /\ calls' = [calls EXCEPT !.proc[p].pc = "done", !.proc[p].created = TRUE,
                              !.proc[p].result = "ok"]
    /\ UNCHANGED <<clock, security, nextRaw, issued, generated, jwts, failed, spent, rows, outbox, blacklist, last>>

(* A later statement of the block fails (the related rows, the secret):
   the transaction is rolled back and the row is gone *)
RollbackCreate(p) ==
    LET c == calls.proc[p] IN
    /\ c.pc = "inserted"
    /\ calls' = [calls EXCEPT !.proc[p].pc = "done", !.proc[p].aborted = TRUE,
                              !.proc[p].result = "InternalServerException"]
    /\ UNCHANGED <<clock, users, security, nextRaw, issued, generated, jwts, failed, spent, rows, outbox, blacklist, last>>

(* The response is sent; the worker takes the next request *)
ReturnCreate(p) ==
    /\ calls.proc[p].pc = "done"
    /\ calls' = [calls EXCEPT !.proc[p] = IdleCreate]
    /\ UNCHANGED <<clock, users, security, nextRaw, issued, generated, jwts, failed, spent, rows, outbox, blacklist, last>>

NextCreate ==
    \/ \E p \in Procs : \E path \in CreatePaths : \E e \in EmailInputs :
          EnterCreate(p, path, e)
    \/ \E p \in Procs : GetOrCreateGet(p)
    \/ \E p \in Procs : InsertUser_(p)
    \/ \E p \in Procs : CommitCreate(p)
    \/ \E p \in Procs : RollbackCreate(p)
    \/ \E p \in Procs : ReturnCreate(p)

SpecCreate == InitCreate /\ [][NextCreate]_vars

(* C30: no two accounts ever hold the same stored email; and of two
   creations of the same stored email that both started while no account
   held it (as sent or as stored), neither of which was rolled back for another reason, exactly one
   creates the account. *)
C30_UniqueEmail ==
    /\ \A i \in DOMAIN users : \A j \in DOMAIN users :
          users[i].email = users[j].email => i = j
    /\ \A p \in Procs : \A q \in Procs \ {p} :
          (/\ calls.proc[p].pc = "done" /\ calls.proc[q].pc = "done"
           /\ calls.proc[p].stored = calls.proc[q].stored
           /\ calls.proc[p].fresh /\ calls.proc[q].fresh
           /\ ~calls.proc[p].aborted /\ ~calls.proc[q].aborted)
          => (calls.proc[p].created # calls.proc[q].created)

(* Two creations of one stored email, sent in different cases, both started
   before either had inserted; p1 created the account and p2 was refused by
   the unique index *)
C30_Witness ==
    /\ calls.proc["p1"].pc = "done" /\ calls.proc["p2"].pc = "done"
    /\ calls.proc["p1"].stored = calls.proc["p2"].stored
    /\ calls.proc["p1"].email # calls.proc["p2"].email
    /\ calls.proc["p1"].fresh /\ calls.proc["p2"].fresh
    /\ calls.proc["p1"].created /\ ~calls.proc["p2"].created
    /\ calls.proc["p2"].result \in {"InternalServerException", "IntegrityError"}
    /\ ~calls.proc["p2"].aborted
    /\ \E i \in DOMAIN users : users[i].email = calls.proc["p1"].stored

(***************************************************************************)
(* Email addresses on the write paths and on the lookup paths, one request  *)
(* at a time. `users` maps the primary key of each row to the row;          *)
(* `generated` remembers the address each row was created from.             *)
(***************************************************************************)

(* User.objects.filter(email=email) / get(email=email) /
   get_by_natural_key(email): an exact match on the stored column *)
FindByEmail(db, email) == {i \in DOMAIN db : db[i].email = email}

(* The lookup paths: authenticate() of the login, User.objects.filter of
   forgot-password, UserSecurity...get(user__email=) of resend *)
LookupPaths == {"login", "forgot_password", "resend"}

(* One creation run alone: << result, the table afterwards >>. register:
   UniqueValidator on the address as sent, then the lower-cased address is
   saved; create_user: the normalized address is saved; oauth:
   get_or_create(email=email, defaults={..., "login_type"}) looks the
   address up as the provider gave it and then fails on login_type, which is
   not a field of User, whether the row exists or not *)
create_account(db, path, email, pk) ==
    LET stored == StoredEmail(path, email)
        row == NewAccount(path, stored)
    IN
    IF path = "register" /\ FindByEmail(db, email) # {}
    THEN <<"ValidationError: Email is already registered.", db>>
    ELSE IF path = "oauth"
    THEN <<"InternalServerException", db>>
    ELSE IF FindByEmail(db, stored) # {}
    THEN <<"IntegrityError", db>>
    ELSE <<"created", (pk :> row) @@ db>>

InitEmail ==
    /\ clock = 0
    /\ users = << >>
    /\ security = << >>
    /\ nextRaw = 0
    /\ issued = << >>
    /\ generated = {}
    /\ jwts = {}
    /\ failed = {}
    /\ spent = {}
    /\ rows = << >>
    /\ outbox = {}
    /\ calls = NoCalls
    /\ blacklist = {}
    /\ last = NoCall

(* A creation through one of the three paths *)
CreateAccount(path, email) ==
    LET r == create_account(users, path, email, nextRaw + 1) IN
    /\ nextRaw < MaxTokens
    /\ users' = r[2]
    /\ nextRaw' = IF r[1] = "created" THEN nextRaw + 1 ELSE nextRaw
    /\ generated' = IF r[1] = "created"
                    THEN generated \cup {<<email, path, nextRaw + 1>>}
                    ELSE generated
    /\ last' = [op |-> "create_account", arg |-> email, result |-> r[1], tokens |-> {},
                pre |-> [path |-> path,
                         known |-> \E g \in generated : g[1] = email]]
    /\ UNCHANGED <<clock, security, issued, jwts, failed, spent, rows, outbox, calls, blacklist>>

(* The account lookup of login, forgot-password or resend *)
LookupAccount(path, email) ==
    /\ last' = [op |-> "lookup_account", arg |-> email,
                result |-> IF FindByEmail(users, email) # {} THEN "found" ELSE "missing",
                tokens |-> {},
                pre |-> [path |-> path,
                         known |-> \E g \in generated : g[1] = email]]
    /\ UNCHANGED <<clock, users, security, nextRaw, issued, generated, jwts, failed, spent, rows, outbox, calls, blacklist>>

NextEmail ==
    \/ \E path \in CreatePaths : \E e \in EmailInputs : CreateAccount(path, e)
    \/ \E path \in LookupPaths : \E e \in EmailInputs : LookupAccount(path, e)

SpecEmail == InitEmail /\ [][NextEmail]_vars

(* C31: one normalization is applied on every write and lookup path. Whatever
   that function is, it maps an address to the same value as itself, so: a
   lookup with the very address an account was created from finds an account,
   and a creation from the very address an account was created from creates
   no second account. *)
C31_OneNormalization ==
    /\ (last.op = "lookup_account" /\ last.pre.known) => last.result = "found"
    /\ (last.op = "create_account" /\ last.pre.known) => last.result # "created"

(***************************************************************************)
(* The federated callbacks: GoogleOAuthService.handle_callback and          *)
(* GitHubOAuthService.handle_callback, on the table of SpecEmail            *)
(***************************************************************************)

LOGIN_GOOGLE == "GOOGLE"
LOGIN_GITHUB == "GITHUB"

(* The concrete fields of User: those of the model, of BaseModel,
   AbstractBaseUser and PermissionsMixin *)
UserFields ==
    {"id", "created_at", "updated_at", "email", "username", "avatar", "role",
     "is_verified", "is_active", "is_staff", "password", "last_login", "is_superuser"}

(* The login-type constants oauth_service.py imports *)
OAuthImports == {"LOGIN_GOOGLE"}

(* The profile carries no email *)
NoEmail == [local |-> "none", domain |-> "none"]

(* What the provider answers: `token` whether the code exchange yields an
   access token, `email` and `name` the profile (NoEmail, "none": withheld),
   `id` the provider's user id *)
ProviderAnswers ==
    [token : BOOLEAN, email : EmailInputs \cup {NoEmail}, name : {"Ann", "none"}, id : {7}]

(* generate_tokens(user): a dict with the keys "access" and "refresh" *)
generate_tokens(pk) ==
    [access |-> [token_type |-> "access", user_id |-> pk],
     refresh |-> [token_type |-> "refresh", user_id |-> pk]]

(* access_jwt, refresh_jwt = <dict>: unpacking a dict yields its keys *)
UnpackDict(d) == <<"access", "refresh">>

CallbackFailed(db, cause) ==
    [result |-> "InternalServerException", cause |-> cause, users |-> db,
     session |-> <<>>]

(* The upsert of both callbacks inside transaction.atomic():
   get_or_create(email=email, defaults=...) checks the names of the defaults
   against the fields of User when the row is missing; for a row found,
   save(update_fields=...) checks the names of update_fields. Then the
   related rows, and the tokens unpacked from the dict. Any exception is
   rolled back and leaves as InternalServerException *)
UpsertAccount(db, email, username, login_type, pk) ==
    LET found == FindByEmail(db, email)
        defaults == {"username", "is_verified", "login_type"}
    IN
    IF found = {} /\ ~(defaults \subseteq UserFields)
    THEN CallbackFailed(db, "FieldError")
    ELSE IF found # {} /\ ~({"username", "is_verified", "login_type"} \subseteq UserFields)
    THEN CallbackFailed(db, "ValueError")
    ELSE LET i == IF found = {} THEN pk ELSE CHOOSE x \in found : TRUE
             row == [email |-> email, password |-> "unusable", is_active |-> TRUE,
                     is_verified |-> TRUE, role |-> ROLE_USER,
                     username |-> username, login_type |-> login_type]
         IN [result |-> "redirect", cause |-> "none",
             users |-> (i :> row) @@ db,
             session |-> UnpackDict(generate_tokens(i))]

(* GoogleOAuthService.handle_callback *)
google_handle_callback(db, answer, pk) ==
    IF ~answer.token
    THEN CallbackFailed(db, "ServiceException")
    ELSE IF answer.name = "none" /\ answer.email = NoEmail
    THEN CallbackFailed(db, "AttributeError")
    ELSE IF answer.email = NoEmail
    THEN CallbackFailed(db, "ValidationException")
    ELSE UpsertAccount(db, answer.email,
                       IF answer.name # "none" THEN answer.name ELSE answer.email.local,
                       LOGIN_GOOGLE, pk)

(* GitHubOAuthService.handle_callback: the name LOGIN_GITHUB is used in the
   defaults and is not imported by the module *)
github_handle_callback(db, answer, pk) ==
    IF ~answer.token
    THEN CallbackFailed(db, "ServiceException")
    ELSE LET email == IF answer.email # NoEmail THEN answer.email
                      ELSE [local |-> "7", domain |-> "github.local"]
         IN IF "LOGIN_GITHUB" \notin OAuthImports
            THEN CallbackFailed(db, "NameError")
            ELSE UpsertAccount(db, email, answer.name, LOGIN_GITHUB, pk)

(* What held when the callback was made *)
CallbackFacts(provider, answer) ==
    [provider |-> provider,
     token |-> answer.token,
     has_email |-> answer.email # NoEmail,
     existed |-> answer.email # NoEmail /\ FindByEmail(users, answer.email) # {},
     users |-> users]

(* GoogleLoginCallbackView.get / GitHubLoginCallbackView.get: the serializer
   takes the code, the service does the rest *)
HandleCallback(provider, answer) ==
    LET r == IF provider = "google"
             THEN google_handle_callback(users, answer, nextRaw + 1)
             ELSE github_handle_callback(users, answer, nextRaw + 1)
    IN
    /\ nextRaw < MaxTokens
    /\ users' = r.users
    /\ nextRaw' = IF DOMAIN r.users # DOMAIN users THEN nextRaw + 1 ELSE nextRaw
    /\ last' = [op |-> "handle_callback", arg |-> answer.email, result |-> r.result,
                tokens |-> r.session, pre |-> CallbackFacts(provider, answer)]
    /\ UNCHANGED <<clock, security, issued, generated, jwts, failed, spent, rows, outbox, calls, blacklist>>

NextOAuth ==
    \/ \E path \in {"register", "create_user"} : \E e \in EmailInputs :
          CreateAccount(path, e)
    \/ \E provider \in {"google", "github"} : \E a \in ProviderAnswers :
          HandleCallback(provider, a)

SpecOAuth == InitEmail /\ [][NextOAuth]_vars

(* C32: a federated callback for which the provider delivers the access
   token and an identity (an email, or for GitHub its user id) succeeds; after
   it exactly one account holds the resolved email, that account is verified,
   and the session returned consists of an access and a refresh token of that
   account. *)
C32_FederatedUpsert ==
    (/\ last.op = "handle_callback"
     /\ last.pre.token
     /\ (last.pre.has_email \/ last.pre.provider = "github")) =>
        /\ last.result = "redirect"
        /\ \E i \in DOMAIN users :
              /\ users[i].is_verified
              /\ \A j \in DOMAIN users : users[j].email = users[i].email => j = i
              /\ \E a \in [token_type : {"access"}, user_id : {i}] :
                 \E r \in [token_type : {"refresh"}, user_id : {i}] :
                    last.tokens = <<a, r>>

(***************************************************************************)
(* Error propagation of the service operations.  Each operation is a list  *)
(* of regions: the statements of one try block (or of the unguarded part   *)
(* of the body), the except clauses that guard them, the taxonomy errors   *)
(* its raise statements raise, and whether it holds a call (database,      *)
(* token library, network) that can fail with an exception of its own.     *)
(* The mail try block nested in register_user never lets an exception out  *)
(* and is left out; the try block nested in change_role around the fetch   *)
(* of the target is a region with its clause before the outer ones.        *)
(***************************************************************************)
TaxonomyErrors ==
    {"ServiceException", "InvalidTokenException", "AuthenticationRequiredException",
     "AuthenticationFailedException", "PermissionDeniedException",
     "InactiveUserException", "ResourceNotFoundException",
     "OperationNotAllowedException", "InternalServerException",
     "ValidationException", "ExternalServiceException"}

(* Exceptions of the libraries the services call *)
LibraryErrors ==
    {"DatabaseError", "TokenError", "DjangoValidationError", "ObjectDoesNotExist",
     "RequestException"}

(* isinstance(exc, cls) for the classes the except clauses name *)
IsInstance(exc, cls) ==
    \/ cls = "Exception"
    \/ cls = exc
    \/ cls = "ServiceException" /\ exc \in TaxonomyErrors

ReRaise == "raise"

ExceptServiceException == [catches |-> "ServiceException", raises |-> ReRaise]
ExceptException == [catches |-> "Exception", raises |-> "InternalServerException"]
ExceptTokenError == [catches |-> "TokenError", raises |-> "InvalidTokenException"]
ExceptDjangoValidationError ==
    [catches |-> "DjangoValidationError", raises |-> "ValidationException"]
ExceptObjectDoesNotExist ==
    [catches |-> "ObjectDoesNotExist", raises |-> "ResourceNotFoundException"]

Unguarded(raised, fallible) == [clauses |-> << >>, raised |-> raised, fallible |-> fallible]
TryBlock(clauses, raised, fallible) ==
    [clauses |-> clauses, raised |-> raised, fallible |-> fallible]

ServiceOperations ==
    [login_user |->
        << TryBlock(<<ExceptServiceException, ExceptException>>,
                    {"AuthenticationRequiredException", "InactiveUserException",
                     "InvalidTokenException"}, TRUE) >>,
     register_user |->
        << TryBlock(<<[catches |-> "ValidationException", raises |-> ReRaise],
                      ExceptException>>, {}, TRUE) >>,
     send_reset_email |->
        << TryBlock(<<ExceptException>>, {}, TRUE) >>,
     reset_password |->
        << Unguarded({"InvalidTokenException"}, TRUE),
           TryBlock(<<ExceptDjangoValidationError>>, {}, TRUE),
           TryBlock(<<ExceptException>>, {}, TRUE) >>,
     change_password |->
        << Unguarded({"InactiveUserException"}, FALSE),
           TryBlock(<<ExceptDjangoValidationError>>, {}, TRUE),
           TryBlock(<<ExceptException>>, {}, TRUE) >>,
     verify_email |->
        << Unguarded({"InvalidTokenException", "OperationNotAllowedException"}, TRUE) >>,
     resend_verification_email |->
        << Unguarded({"PermissionDeniedException"}, FALSE),
           TryBlock(<<ExceptException>>, {}, TRUE) >>,
     setup_2fa |->
        << Unguarded({"ValidationException"}, TRUE) >>,
     enable_2fa |->
        << Unguarded({"ValidationException", "AuthenticationFailedException"}, TRUE) >>,
     disable_2fa |->
        << Unguarded({"ValidationException", "AuthenticationFailedException"}, TRUE) >>,
     verify_2fa_and_issue_tokens |->
        << Unguarded({"ValidationException", "AuthenticationFailedException"}, TRUE) >>,
     refresh_access_token |->
        << TryBlock(<<ExceptTokenError, ExceptServiceException, ExceptException>>,
                    {}, TRUE) >>,
     logout_user |->
        << TryBlock(<<ExceptTokenError, ExceptServiceException, ExceptException>>,
                    {"InvalidTokenException"}, TRUE) >>,
     change_role |->
        << Unguarded({"PermissionDeniedException"}, FALSE),
           TryBlock(<<ExceptObjectDoesNotExist, ExceptServiceException,
                      ExceptException>>, {}, TRUE),
           TryBlock(<<ExceptServiceException, ExceptException>>,
                    {"InactiveUserException", "OperationNotAllowedException"},
                    TRUE) >>,
     google_handle_callback |->
        << TryBlock(<<ExceptException>>,
                    {"ServiceException", "ValidationException"}, TRUE) >>,
     github_handle_callback |->
        << TryBlock(<<ExceptException>>, {"ServiceException"}, TRUE) >>]

(* The exception that leaves a region in which exc was raised: the first
   except clause whose class exc is an instance of decides; with no such
   clause exc leaves as it is. *)
RECURSIVE Leaves(_, _)
Leaves(clauses, exc) ==
    IF clauses = << >> THEN exc
    ELSE IF IsInstance(exc, Head(clauses).catches)
         THEN IF Head(clauses).raises = ReRaise THEN exc ELSE Head(clauses).raises
         ELSE Leaves(Tail(clauses), exc)

(* What a region can raise: its raise statements, and the failures of the
   calls it makes *)
Raisable(region) ==
    region.raised \cup (IF region.fallible THEN LibraryErrors ELSE {})

InitPropagate == InitEmail

(* One call of a service operation in which exc is raised in region i *)
ServiceRaises(operation, i, exc) ==
    LET region == ServiceOperations[operation][i] IN
    /\ exc \in Raisable(region)
    /\ last' = [op |-> operation, arg |-> exc,
                result |-> Leaves(region.clauses, exc),
                tokens |-> << >>,
                pre |-> [region |-> i, raised_by_code |-> exc \in region.raised]]
    /\ UNCHANGED <<clock, users, security, nextRaw, issued, generated, jwts, failed,
                   spent, rows, outbox, calls, blacklist>>

NextPropagate ==
    \E operation \in DOMAIN ServiceOperations :
       \E i \in DOMAIN ServiceOperations[operation] :
          \E exc \in TaxonomyErrors \cup LibraryErrors :
             ServiceRaises(operation, i, exc)

SpecPropagate == InitPropagate /\ [][NextPropagate]_vars

(* C33: a taxonomy error raised in a service operation leaves it unchanged
   (in particular it never leaves as InternalServerException unless it was
   one), and an exception that is not a taxonomy error never leaves a service
   operation: what leaves in its place is a taxonomy error. *)
C33_TaxonomyPropagation ==
    last.op \in DOMAIN ServiceOperations =>
        /\ last.arg \in TaxonomyErrors => last.result = last.arg
        /\ last.arg \notin TaxonomyErrors => last.result \in TaxonomyErrors

(***************************************************************************)
(* The profile rows of an account, statement by statement.  rows[pk] gives *)
(* for each primary key whether the User row is committed and how many     *)
(* committed UserSecurity and UserPresence rows point at it.  A call that  *)
(* runs inside transaction.atomic() keeps its writes in `pending` until    *)
(* the block ends; a call in autocommit writes each statement at once.     *)
(* Model.save() sends post_save after the INSERT of the row has been       *)
(* issued, so outside a transaction the receiver runs after that INSERT    *)
(* is committed.                                                           *)
(***************************************************************************)
Pks == 1..MaxTokens

NoProfileRows == [user |-> FALSE, security |-> 0, presence |-> 0]

IdleProfileCall ==
    [pc |-> "idle", path |-> "none", pk |-> 0, atomic |-> FALSE, pending |-> {},
     result |-> "none"]

(* The creation paths and whether the path opens transaction.atomic() around
   the save: RegisterService.register_user and the federated upsert do, the
   manager's create_user and create_superuser do not *)
OpensTransaction(path) == path \in {"register", "oauth"}

(* INSERT into a table with the unique index of its OneToOneField: refused
   (IntegrityError, after which get_or_create fetches the row) when a row of
   that account is there *)
UniqueInsert(count) == IF count >= 1 THEN count ELSE count + 1

InitProfiles ==
    /\ clock = 0
    /\ users = << >>
    /\ security = << >>
    /\ nextRaw = 0
    /\ issued = << >>
    /\ generated = {}
    /\ jwts = {}
    /\ failed = {}
    /\ spent = {}
    /\ rows = [pk \in Pks |-> NoProfileRows]
    /\ outbox = {}
    /\ calls = [p \in Procs |-> IdleProfileCall]
    /\ blacklist = {}
    /\ last = NoCall

ProfileUnchanged ==
    UNCHANGED <<clock, users, security, issued, generated, jwts, failed, spent,
                outbox, blacklist>>

(* A creation call starts on one of the paths *)
BeginCreate(p, path) ==
    /\ calls[p].pc \in {"idle", "done"}
    /\ nextRaw < MaxTokens
    /\ calls' = [calls EXCEPT ![p] =
          [pc |-> IF path = "oauth" THEN "get_or_create" ELSE "save",
           path |-> path, pk |-> nextRaw + 1, atomic |-> OpensTransaction(path),
           pending |-> {}, result |-> "none"]]
    /\ nextRaw' = IF path = "oauth" THEN nextRaw ELSE nextRaw + 1
    /\ last' = [op |-> "begin_create", arg |-> path, result |-> "none",
                tokens |-> << >>, pre |-> NoFacts]
    /\ UNCHANGED rows
    /\ ProfileUnchanged

(* The federated upsert: User.objects.get_or_create with the default
   login_type, which User does not have, raises; the block rolls back *)
UpsertGetOrCreate(p) ==
    /\ calls[p].pc = "get_or_create"
    /\ calls' = [calls EXCEPT ![p].pc = "done",
                              ![p].result = "InternalServerException"]
    /\ last' = [op |-> "create", arg |-> calls[p].path,
                result |-> "InternalServerException", tokens |-> << >>,
                pre |-> NoFacts]
    /\ UNCHANGED <<rows, nextRaw>>
    /\ ProfileUnchanged

(* user.save(): the INSERT of the User row *)
SaveUser(p) ==
    LET c == calls[p] IN
    /\ c.pc = "save"
    /\ IF c.atomic
       THEN /\ calls' = [calls EXCEPT ![p].pc = "receiver_security",
                                      ![p].pending = {"user"}]
            /\ UNCHANGED rows
       ELSE /\ calls' = [calls EXCEPT ![p].pc = "receiver_security"]
            /\ rows' = [rows EXCEPT ![c.pk].user = TRUE]
    /\ last' = [op |-> "save", arg |-> c.path, result |-> "none",
                tokens |-> << >>, pre |-> NoFacts]
    /\ UNCHANGED nextRaw
    /\ ProfileUnchanged

(* create_user_relations, first statement:
   UserSecurity.objects.get_or_create(user=instance) *)
ReceiverSecurity(p) ==
    LET c == calls[p] IN
    /\ c.pc = "receiver_security"
    /\ IF c.atomic
       THEN /\ calls' = [calls EXCEPT ![p].pc = "receiver_presence",
                                      ![p].pending = @ \cup {"security"}]
            /\ UNCHANGED rows
       ELSE /\ calls' = [calls EXCEPT ![p].pc = "receiver_presence"]
            /\ rows' = [rows EXCEPT ![c.pk].security = UniqueInsert(@)]
    /\ last' = [op |-> "receiver_security", arg |-> c.path, result |-> "none",
                tokens |-> << >>, pre |-> NoFacts]
    /\ UNCHANGED nextRaw
    /\ ProfileUnchanged

(* create_user_relations, second statement:
   UserPresence.objects.get_or_create(user=instance) *)
ReceiverPresence(p) ==
    LET c == calls[p] IN
    /\ c.pc = "receiver_presence"
    /\ IF c.atomic
       THEN /\ calls' = [calls EXCEPT ![p].pc = "commit",
                                      ![p].pending = @ \cup {"presence"}]
            /\ UNCHANGED rows
       ELSE /\ calls' = [calls EXCEPT ![p].pc = "done", ![p].result = "created"]
            /\ rows' = [rows EXCEPT ![c.pk].presence = UniqueInsert(@)]
    /\ last' = [op |-> "receiver_presence", arg |-> c.path, result |-> "none",
                tokens |-> << >>, pre |-> NoFacts]
    /\ UNCHANGED nextRaw
    /\ ProfileUnchanged

(* The end of the transaction.atomic() block: the writes of the call become
   visible together *)
CommitAccount(p) ==
    LET c == calls[p] IN
    /\ c.pc = "commit"
    /\ rows' = [rows EXCEPT ![c.pk] =
          [user |-> "user" \in c.pending,
           security |-> IF "security" \in c.pending THEN 1 ELSE 0,
           presence |-> IF "presence" \in c.pending THEN 1 ELSE 0]]
    /\ calls' = [calls EXCEPT ![p].pc = "done", ![p].pending = {},
                              ![p].result = "created"]
    /\ last' = [op |-> "create", arg |-> c.path, result |-> "created",
                tokens |-> << >>, pre |-> NoFacts]
    /\ UNCHANGED nextRaw
    /\ ProfileUnchanged

(* The statement the call is about to run fails in the database: inside
   transaction.atomic() the block rolls back and the service answers
   InternalServerException; in autocommit the statements already run stay *)
StatementFails(p) ==
    LET c == calls[p] IN
    /\ c.pc \in {"save", "receiver_security", "receiver_presence", "commit"}
    /\ calls' = [calls EXCEPT ![p].pc = "done", ![p].pending = {},
                              ![p].result = IF c.atomic THEN "InternalServerException"
                                            ELSE "DatabaseError"]
    /\ last' = [op |-> "create", arg |-> c.path,
                result |-> IF c.atomic THEN "InternalServerException"
                           ELSE "DatabaseError",
                tokens |-> << >>, pre |-> NoFacts]
    /\ UNCHANGED <<rows, nextRaw>>
    /\ ProfileUnchanged

(* A later UserSecurity.objects.get_or_create(user=user) for an account that
   exists (create_email_verification): first the SELECT *)
GetOrCreateSelect(p, pk) ==
    /\ calls[p].pc \in {"idle", "done"}
    /\ rows[pk].user
    /\ calls' = [calls EXCEPT ![p] =
          [pc |-> IF rows[pk].security >= 1 THEN "done" ELSE "insert",
           path |-> "get_or_create", pk |-> pk, atomic |-> FALSE, pending |-> {},
           result |-> IF rows[pk].security >= 1 THEN "got" ELSE "none"]]
    /\ last' = [op |-> "get_or_create", arg |-> pk,
                result |-> IF rows[pk].security >= 1 THEN "got" ELSE "none",
                tokens |-> << >>, pre |-> NoFacts]
    /\ UNCHANGED <<rows, nextRaw>>
    /\ ProfileUnchanged

(* then, when the SELECT found nothing, the INSERT *)
GetOrCreateInsert(p) ==
    LET c == calls[p] IN
    /\ c.pc = "insert"
    /\ rows' = [rows EXCEPT ![c.pk].security = UniqueInsert(@)]
    /\ calls' = [calls EXCEPT ![p].pc = "done",
                              ![p].result = IF rows[c.pk].security >= 1 THEN "got"
                                            ELSE "created"]
    /\ last' = [op |-> "get_or_create", arg |-> c.pk,
                result |-> IF rows[c.pk].security >= 1 THEN "got" ELSE "created",
                tokens |-> << >>, pre |-> NoFacts]
    /\ UNCHANGED nextRaw
    /\ ProfileUnchanged

NextProfiles ==
    \E p \in Procs :
       \/ \E path \in CreatePaths : BeginCreate(p, path)
       \/ UpsertGetOrCreate(p)
       \/ SaveUser(p)
       \/ ReceiverSecurity(p)
       \/ ReceiverPresence(p)
       \/ CommitAccount(p)
       \/ StatementFails(p)
       \/ \E pk \in Pks : GetOrCreateSelect(p, pk)
       \/ GetOrCreateInsert(p)

SpecProfiles == InitProfiles /\ [][NextProfiles]_vars

(* No creation call is between its first statement and its end *)
NoCreationInFlight ==
    \A p \in Procs : calls[p].path \in CreatePaths => calls[p].pc \in {"idle", "done"}

(* C34: whenever no creation call is in flight, every account has exactly
   one SecurityProfile and at most one presence profile, and a primary key
   without an account has no profile row. *)
C34_ProfilesWithAccount ==
    NoCreationInFlight =>
        \A pk \in Pks :
           /\ rows[pk].user => rows[pk].security = 1 /\ rows[pk].presence <= 1
           /\ ~rows[pk].user => rows[pk].security = 0 /\ rows[pk].presence = 0

(***************************************************************************)
(* UserManager.create_superuser.  extra_fields is the dictionary of the    *)
(* keyword arguments the caller passed: a function whose domain is the set *)
(* of the keys passed.                                                     *)
(***************************************************************************)
FlagKeys == {"is_staff", "is_superuser", "is_verified"}

ExtraFields ==
    {flags @@ role :
        flags \in UNION {[D -> BOOLEAN] : D \in SUBSET FlagKeys},
        role \in {[k \in {} |-> ROLE_USER]} \cup [{"role"} -> {ROLE_USER, ROLE_SUPERADMIN}]}

(* dict.setdefault(key, value): the value is stored only when the key is
   absent *)
setdefault(d, key, value) == IF key \in DOMAIN d THEN d ELSE d @@ (key :> value)

SuperuserEmails == {"", "root@x.com"}

(* _create_user: ValueError without an email, otherwise the row is saved
   with the fields given (the unique index on email refuses a second row) *)
_create_user(db, email, extra_fields) ==
    IF email = "" THEN <<"ValueError", db>>
    ELSE IF email \in DOMAIN db THEN <<"IntegrityError", db>>
    ELSE <<"created", db @@ (email :> extra_fields)>>

create_superuser(db, email, extra) ==
    LET f1 == setdefault(extra, "role", ROLE_SUPERADMIN)
        f2 == setdefault(f1, "is_staff", TRUE)
        f3 == setdefault(f2, "is_superuser", TRUE)
        f4 == setdefault(f3, "is_verified", TRUE)
    IN _create_user(db, email, f4)

InitSuperuser ==
    /\ clock = 0
    /\ users = [e \in {} |-> [x \in {} |-> TRUE]]
    /\ security = << >>
    /\ nextRaw = 0
    /\ issued = << >>
    /\ generated = {}
    /\ jwts = {}
    /\ failed = {}
    /\ spent = {}
    /\ rows = << >>
    /\ outbox = {}
    /\ calls = NoCalls
    /\ blacklist = {}
    /\ last = NoCall

CreateSuperuser(email, extra) ==
    LET r == create_superuser(users, email, extra) IN
    /\ users' = r[2]
    /\ last' = [op |-> "create_superuser", arg |-> email, result |-> r[1],
                tokens |-> << >>,
                pre |-> [extra |-> extra, existed |-> email \in DOMAIN users]]
    /\ UNCHANGED <<clock, security, nextRaw, issued, generated, jwts, failed, spent,
                   rows, outbox, calls, blacklist>>

NextSuperuser ==
    \E email \in SuperuserEmails : \E extra \in ExtraFields :
       CreateSuperuser(email, extra)

SpecSuperuser == InitSuperuser /\ [][NextSuperuser]_vars

(* is_staff=False or is_superuser=False was passed *)
PassedFalseFlag(extra) ==
    \/ "is_staff" \in DOMAIN extra /\ ~extra["is_staff"]
    \/ "is_superuser" \in DOMAIN extra /\ ~extra["is_superuser"]

(* C35: a create_superuser call that passes is_staff=False or
   is_superuser=False ends with an error and creates no account, and a call
   that creates an account yields is_staff and is_superuser true and, where
   the caller did not pass them, is_verified true and the role SUPERADMIN. *)
C35_SuperuserFlags ==
    last.op = "create_superuser" =>
        /\ PassedFalseFlag(last.pre.extra) =>
              /\ last.result = "ValueError"
              /\ (last.arg \in DOMAIN users) = last.pre.existed
        /\ last.result = "created" =>
              /\ users[last.arg]["is_staff"]
              /\ users[last.arg]["is_superuser"]
              /\ "is_verified" \notin DOMAIN last.pre.extra =>
                    users[last.arg]["is_verified"]
              /\ "role" \notin DOMAIN last.pre.extra =>
                    users[last.arg]["role"] = ROLE_SUPERADMIN

(***************************************************************************)
(* Where the outbound network calls stand relative to the transactions.    *)
(* Each operation is the sequence of its statements that open or close     *)
(* transaction.atomic(), write the UserSecurity row (which takes the row's *)
(* lock until the transaction ends), or call out over the network          *)
(* (send_email, requests.post for the code exchange, requests.get for the  *)
(* provider profile).                                                      *)
(***************************************************************************)
NetworkStatements == {"send_email", "requests_post", "requests_get"}

Programs ==
    [RegisterView |-> <<"atomic", "save", "end_atomic", "send_email">>,
     register_user |-> <<"atomic", "save", "end_atomic", "send_email">>,
     send_reset_email |->
        <<"atomic", "select_for_update", "save", "end_atomic", "send_email">>,
     resend_verification_email |-> <<"atomic", "save", "end_atomic", "send_email">>,
     ResendEmailView |-> <<"atomic", "save", "send_email", "end_atomic">>,
     google_handle_callback |->
        <<"requests_post", "requests_get", "atomic", "get_or_create", "end_atomic">>,
     github_handle_callback |->
        <<"requests_post", "requests_get", "atomic", "get_or_create", "end_atomic">>]

(* The row an operation writes: a registration writes the row of the account
   it creates, the others the row of the account named in the request *)
RowOf(p, operation) ==
    IF operation \in {"RegisterView", "register_user"} THEN p ELSE "account"

IdleProgram == [operation |-> "none", pc |-> 0, atomic |-> FALSE, result |-> "none"]

NoLocks == [r \in Procs \cup {"account"} |-> "none"]

InitNetwork ==
    /\ clock = 0
    /\ users = << >>
    /\ security = << >>
    /\ nextRaw = 0
    /\ issued = << >>
    /\ generated = {}
    /\ jwts = {}
    /\ failed = {}
    /\ spent = {}
    /\ rows = NoLocks
    /\ outbox = {}
    /\ calls = [p \in Procs |-> IdleProgram]
    /\ blacklist = {}
    /\ last = NoCall

NetworkUnchanged ==
    UNCHANGED <<clock, users, security, nextRaw, issued, generated, jwts, failed,
                spent, outbox, blacklist>>

(* The statements of an operation; a worker that serves no request has none *)
ProgramOf(operation) == IF operation = "none" THEN << >> ELSE Programs[operation]

(* The statement the call of p is about to run *)
Statement(p) ==
    LET c == calls[p] IN
    IF c.pc \in DOMAIN ProgramOf(c.operation) THEN ProgramOf(c.operation)[c.pc]
    ELSE "none"

(* The locks the call of p holds *)
LocksOf(lk, p) == {r \in DOMAIN lk : lk[r] = p}

Ran(p, statement, lk) ==
    [op |-> statement, arg |-> calls[p].operation, result |-> "none",
     tokens |-> << >>,
     pre |-> [atomic |-> calls[p].atomic, locks |-> LocksOf(lk, p)]]

(* A request arrives *)
StartOperation(p, operation) ==
    /\ Statement(p) = "none"
    /\ calls' = [calls EXCEPT ![p] =
          [operation |-> operation, pc |-> 1, atomic |-> FALSE, result |-> "none"]]
    /\ last' = [op |-> "start", arg |-> operation, result |-> "none",
                tokens |-> << >>, pre |-> NoFacts]
    /\ UNCHANGED rows
    /\ NetworkUnchanged

(* with transaction.atomic(): *)
EnterAtomic(p) ==
    /\ Statement(p) = "atomic"
    /\ calls' = [calls EXCEPT ![p].pc = @ + 1, ![p].atomic = TRUE]
    /\ last' = Ran(p, "atomic", rows)
    /\ UNCHANGED rows
    /\ NetworkUnchanged

(* select_for_update().get_or_create and security.save(): the statement
   waits while another transaction holds the lock of the row, then holds it
   until its own transaction ends *)
LockRow(p) ==
    LET r == RowOf(p, calls[p].operation) IN
    /\ Statement(p) \in {"select_for_update", "save"}
    /\ rows[r] \in {"none", p}
    /\ rows' = [rows EXCEPT ![r] = p]
    /\ calls' = [calls EXCEPT ![p].pc = @ + 1]
    /\ last' = Ran(p, Statement(p), rows)
    /\ NetworkUnchanged

(* User.objects.get_or_create of the federated upsert raises: the block is
   left through the exception and rolls back *)
UpsertRaises(p) ==
    /\ Statement(p) = "get_or_create"
    /\ calls' = [calls EXCEPT ![p].pc = Len(ProgramOf(calls[p].operation)) + 1,
                              ![p].atomic = FALSE,
                              ![p].result = "InternalServerException"]
    /\ rows' = [r \in DOMAIN rows |-> IF rows[r] = p THEN "none" ELSE rows[r]]
    /\ last' = Ran(p, "get_or_create", rows)
    /\ NetworkUnchanged

(* The end of the with block: commit, the locks of the call are released *)
LeaveAtomic(p) ==
    /\ Statement(p) = "end_atomic"
    /\ calls' = [calls EXCEPT ![p].pc = @ + 1, ![p].atomic = FALSE]
    /\ rows' = [r \in DOMAIN rows |-> IF rows[r] = p THEN "none" ELSE rows[r]]
    /\ last' = Ran(p, "end_atomic", rows)
    /\ NetworkUnchanged

(* send_email, requests.post, requests.get: the call goes out; it may fail,
   and inside a with block the failure rolls the block back *)
NetworkCall(p, ok) ==
    /\ Statement(p) \in NetworkStatements
    /\ IF ok \/ ~calls[p].atomic
       THEN /\ calls' = [calls EXCEPT ![p].pc = @ + 1]
            /\ UNCHANGED rows
       ELSE /\ calls' = [calls EXCEPT ![p].pc = Len(ProgramOf(calls[p].operation)) + 1,
                                      ![p].atomic = FALSE, ![p].result = "500"]
            /\ rows' = [r \in DOMAIN rows |-> IF rows[r] = p THEN "none" ELSE rows[r]]
    /\ last' = [Ran(p, Statement(p), rows) EXCEPT !.result = IF ok THEN "sent" ELSE "failed"]
    /\ NetworkUnchanged

NextNetwork ==
    \E p \in Procs :
       \/ \E operation \in DOMAIN Programs : StartOperation(p, operation)
       \/ EnterAtomic(p)
       \/ LockRow(p)
       \/ UpsertRaises(p)
       \/ LeaveAtomic(p)
       \/ \E ok \in BOOLEAN : NetworkCall(p, ok)

SpecNetwork == InitNetwork /\ [][NextNetwork]_vars

(* C36: when an outbound network call is made, the call making it has no
   transaction open and holds no lock on a UserSecurity row. *)
C36_NoNetworkUnderLock ==
    last.op \in NetworkStatements =>
        /\ ~last.pre.atomic
        /\ last.pre.locks = {}

(***************************************************************************)
(* ResetPasswordService.reset_password statement by statement, next to     *)
(* the steps of send_reset_email.  The lookup of the secret is a SELECT    *)
(* outside any transaction; the transaction that follows writes the        *)
(* password and clears the two secret columns of the row the lookup        *)
(* returned, whatever the row holds by then.  The store starts as one      *)
(* completed ForgotPassword for the account leaves it.                     *)
(***************************************************************************)
IdleResetCall ==
    [pc |-> "idle", raw |-> NoRaw, now |-> NullTime, met |-> FALSE, result |-> "none",
     op |-> "none", password |-> "none"]

FirstRaw == NoRaw + 1     \* the raw value of the first ForgotPassword

InitResetConc ==
    /\ clock = 0
    /\ users = [u \in UserIds |->
                  [password |-> "old", is_active |-> TRUE, is_verified |-> TRUE]]
    /\ security = [u \in UserIds |->
                     IF u = ConcEmail
                     THEN generate_forgot_password(EmptySecurity, FirstRaw, 0)
                     ELSE EmptySecurity]
    /\ nextRaw = FirstRaw
    /\ issued = [u \in UserIds |-> [k \in Kinds |->
                    IF u = ConcEmail /\ k = "forgot_password"
                    THEN [raw |-> FirstRaw, at |-> 0, live |-> TRUE]
                    ELSE NoIssue]]
    /\ generated = {<<ConcEmail, "forgot_password", FirstRaw>>}
    /\ jwts = {}
    /\ failed = {}
    /\ spent = {}
    /\ rows = AllRows
    /\ outbox = {Mail(ConcEmail, "forgot_password", FirstRaw)}
    /\ calls = [proc |-> [p \in Procs |-> IdleResetCall], lock |-> "none", order |-> <<>>]
    /\ blacklist = {}
    /\ last = NoCall

(* The SELECT of reset_password and validate_password: the call leaves with
   InvalidTokenException when no unexpired row holds the hash, with
   ValidationException when the password is refused *)
ResetLookup(p, raw, new_password) ==
    LET found == UnexpiredMatches(hash_token(raw), clock)
        result == IF found = {} THEN "InvalidTokenException"
                  ELSE IF ~validate_password(new_password) THEN "ValidationException"
                  ELSE "none"
    IN
    /\ calls.proc[p].pc = "idle"
    /\ calls' = [calls EXCEPT !.proc[p] =
          [pc |-> IF result = "none" THEN "reset_found" ELSE "done",
           raw |-> raw, now |-> clock, met |-> calls.lock # "none",
           result |-> result, op |-> "reset", password |-> new_password]]
    /\ UNCHANGED <<clock, users, security, nextRaw, issued, generated, jwts, failed,
                   spent, rows, outbox, blacklist, last>>

(* The transaction of reset_password: user.save(update_fields=["password"])
   and security.save(update_fields=[the two secret columns]); the UPDATE of
   the row waits for the row lock of a send_reset_email in progress *)
ResetWrite(p, failAt) ==
    LET c == calls.proc[p]
        before == [users |-> users, security |-> security]
        w1 == [before EXCEPT !.users[ConcEmail].password = c.password]
        w2 == [w1 EXCEPT !.security[ConcEmail] = clear_forgot_password_token(@)]
        db == transaction_atomic(before, <<w1, w2>>, failAt)
    IN
    /\ c.pc = "reset_found"
    /\ calls.lock = "none"
    /\ users' = db.users
    /\ security' = db.security
    /\ spent' = IF failAt = 0 THEN spent \cup {c.raw} ELSE spent
    /\ calls' = [calls EXCEPT !.proc[p].pc = "done",
                              !.proc[p].result = IF failAt = 0 THEN "user"
                                                 ELSE "InternalServerException"]
    /\ UNCHANGED <<clock, nextRaw, issued, generated, jwts, failed, rows, outbox,
                   blacklist, last>>

NextResetConc ==
    \/ \E p \in Procs : \E raw \in RawTokens \ {NoRaw} :
          \E pw \in Passwords \cup {WeakPassword} : ResetLookup(p, raw, pw)
    \/ \E p \in Procs : \E f \in FailPoints : ResetWrite(p, f)
    \/ \E p \in Procs : Lookup(p)
    \/ \E p \in Procs : SelectForUpdate(p)
    \/ \E p \in Procs : \E f \in WriteFailPoints : Save(p, f)
    \/ \E p \in Procs : Commit(p)
    \/ \E p \in Procs : \E ok \in BOOLEAN : SendResetMail(p, ok)
    \/ AdvanceHour

SpecResetConc == InitResetConc /\ [][NextResetConc]_vars

(* The reset calls that have ended *)
ResetsDone == {p \in Procs : calls.proc[p].op = "reset" /\ calls.proc[p].pc = "done"}

(* C37: of two ResetPassword calls that present the same raw token at most
   one succeeds; the other ends with InvalidTokenException, and the password
   of a call that did not succeed is not the stored one. *)
C37_ConcurrentResetOnce ==
    \A p \in ResetsDone : \A q \in ResetsDone \ {p} :
       (/\ calls.proc[p].raw = calls.proc[q].raw
        /\ calls.proc[p].password # calls.proc[q].password
        /\ validate_password(calls.proc[p].password)
        /\ validate_password(calls.proc[q].password)
        /\ calls.proc[p].result = "user") =>
            /\ calls.proc[q].result # "user"
            /\ users[ConcEmail].password # calls.proc[q].password

(* C38: when a ForgotPassword call and a ResetPassword call that consumes an
   older secret have both ended, the raw value the ForgotPassword call
   delivered verifies (until its expiry). *)
C38_NewerSecretSurvives ==
    \A p \in ResetsDone : \A q \in Procs :
       (/\ calls.proc[p].result = "user"
        /\ calls.proc[q].op = "none"
        /\ calls.proc[q].pc = "done"
        /\ calls.proc[q].result = "ok"
        /\ calls.proc[q].raw # calls.proc[p].raw
        /\ clock <= calls.proc[q].now + PASSWORD_RESET_EXPIRY_HOURS * StepsPerHour) =>
            /\ Mail(ConcEmail, "forgot_password", calls.proc[q].raw) \in outbox
            /\ verify_forgot_password_token(security[ConcEmail], calls.proc[q].raw, clock)

(***************************************************************************)
(* TwoFactorService statement by statement.  Each operation first loads    *)
(* the UserSecurity row (security = user.security), runs its checks on the *)
(* loaded object, and then saves with update_fields: the UPDATE copies the *)
(* named columns of the loaded object into the row and leaves the other    *)
(* columns as the row holds them.  Nothing locks the row between the load  *)
(* and the save.  The calls are made within one TOTP time step.            *)
(***************************************************************************)
TwoFAOperations == {"setup_2fa", "enable_2fa", "disable_2fa"}

IdleTwoFACall ==
    [pc |-> "idle", op |-> "none", sec |-> EmptySecurity, code |-> TotpAt(0, 0),
     result |-> "none"]

InitTwoFactorConc ==
    /\ clock = 0
    /\ users = [u \in UserIds |->
                  [password |-> "pwA", is_active |-> TRUE, is_verified |-> TRUE]]
    /\ security = [u \in UserIds |-> EmptySecurity]
    /\ nextRaw = 0
    /\ issued = [u \in UserIds |-> [k \in Kinds |-> NoIssue]]
    /\ generated = {}
    /\ jwts = {}
    /\ failed = {}
    /\ spent = {}
    /\ rows = AllRows
    /\ outbox = {}
    /\ calls = [p \in Procs |-> IdleTwoFACall]
    /\ blacklist = {}
    /\ last = NoCall

(* What the operation does with the object it loaded, a secret to generate
   and the code presented: the service's result and the object as saved *)
TwoFAOnLoaded(op, sec, secret, code, now) ==
    IF op = "setup_2fa" THEN setup_2fa(sec, secret, 0)
    ELSE IF op = "enable_2fa" THEN enable_2fa(sec, code, now, 0)
    ELSE disable_2fa(sec, code, now, 0)

(* save(update_fields=...) of each operation: the columns written *)
SaveUpdateFields(op, row, loaded) ==
    IF op = "setup_2fa" THEN [row EXCEPT !.totp_secret = loaded.totp_secret]
    ELSE IF op = "enable_2fa" THEN [row EXCEPT !.is_2fa_enabled = loaded.is_2fa_enabled]
    ELSE [row EXCEPT !.is_2fa_enabled = loaded.is_2fa_enabled,
                     !.totp_secret = loaded.totp_secret]

(* security = user.security and the checks before the with block; a call
   that fails a check leaves with its exception *)
LoadAndCheck(p, op, code) ==
    LET sec == security[ConcEmail]
        r == TwoFAOnLoaded(op, sec, nextRaw + 1, code, clock)
        passed == r.result \in {"secret", "success"}
    IN
    /\ calls[p].pc \in {"idle", "done"}
    /\ calls' = [calls EXCEPT ![p] =
          [pc |-> IF passed THEN "checked" ELSE "done", op |-> op, sec |-> sec,
           code |-> code, result |-> IF passed THEN "none" ELSE r.result]]
    /\ last' = [op |-> "load", arg |-> op, result |-> IF passed THEN "none" ELSE r.result,
                tokens |-> << >>, pre |-> NoFacts]
    /\ UNCHANGED <<clock, users, security, nextRaw, issued, generated, jwts, failed,
                   spent, rows, outbox, blacklist>>

(* The with transaction.atomic() block of the operation: the save of the
   loaded object, or the rollback when the save fails *)
SaveLoaded(p, failAt) ==
    LET c == calls[p]
        r == TwoFAOnLoaded(c.op, c.sec, nextRaw + 1, c.code, clock)
        ok == failAt = 0
    IN
    /\ c.pc = "checked"
    /\ c.op = "setup_2fa" => nextRaw < MaxTokens
    /\ security' = IF ok
                   THEN [security EXCEPT ![ConcEmail] = SaveUpdateFields(c.op, @, r.sec)]
                   ELSE security
    /\ nextRaw' = IF ok /\ c.op = "setup_2fa" THEN nextRaw + 1 ELSE nextRaw
    /\ calls' = [calls EXCEPT ![p].pc = "done",
                              ![p].result = IF ok THEN r.result ELSE "DatabaseError"]
    /\ last' = [op |-> c.op, arg |-> ConcEmail,
                result |-> IF ok THEN r.result ELSE "DatabaseError",
                tokens |-> << >>, pre |-> NoFacts]
    /\ UNCHANGED <<clock, users, issued, generated, jwts, failed, spent, rows, outbox,
                   blacklist>>

(* The codes a client sends: what the authenticator shows now for a secret
   handed out so far, or a code of no secret *)
ConcCodes == { TotpAt(k, clock) : k \in 0..nextRaw }

NextTwoFactorConc ==
    \/ \E p \in Procs : \E op \in TwoFAOperations : \E c \in ConcCodes :
          LoadAndCheck(p, op, c)
    \/ \E p \in Procs : \E f \in WriteFailPoints : SaveLoaded(p, f)

SpecTwoFactorConc == InitTwoFactorConc /\ [][NextTwoFactorConc]_vars

(* C39: in every state of every interleaving, an account with 2FA enabled
   has a TOTP secret stored, and right after a successful disable 2FA is off
   and no secret is stored. *)
C39_EnabledHasSecret ==
    /\ security[ConcEmail].is_2fa_enabled => security[ConcEmail].totp_secret # 0
    /\ (last.op = "disable_2fa" /\ last.result = "success") =>
          /\ ~security[ConcEmail].is_2fa_enabled
          /\ security[ConcEmail].totp_secret = 0

(***************************************************************************)
(* The two tests of a secret's validity: the method of the row             *)
(* (verify_forgot_password_token, verify_email_verification_token) and     *)
(* the lookup of the service (reset_password, verify_email), applied to    *)
(* the same row, raw value and time.  The row holds, per kind, no secret   *)
(* or the hash of a raw value with an expiry on the hour.                  *)
(***************************************************************************)
ExpiryTimes == { h * StepsPerHour : h \in 1..MaxHours }

(* The clock values looked at: the hours, and one step before and after *)
ValidityClocks == {0} \cup { t + d : t \in ExpiryTimes, d \in {-1, 0, 1} }

StoredSecrets ==
    {[token |-> NullToken, expiry |-> NullTime]}
        \cup [token : {hash_token(r) : r \in RawTokens \ {NoRaw}}, expiry : ExpiryTimes]

InitValidity ==
    /\ clock \in ValidityClocks
    /\ users = [u \in UserIds |->
                  [password |-> "pwA", is_active |-> TRUE, is_verified |-> FALSE]]
    /\ \E f \in StoredSecrets : \E v \in StoredSecrets :
          security = [u \in UserIds |->
                        IF u = ConcEmail
                        THEN [EmptySecurity EXCEPT
                                 !.forgot_password_token = f.token,
                                 !.forgot_password_expiry = f.expiry,
                                 !.email_verification_token = v.token,
                                 !.email_verification_expiry = v.expiry]
                        ELSE EmptySecurity]
    /\ nextRaw = 0
    /\ issued = [u \in UserIds |-> [k \in Kinds |-> NoIssue]]
    /\ generated = {}
    /\ jwts = {}
    /\ failed = {}
    /\ spent = {}
    /\ rows = AllRows
    /\ outbox = {}
    /\ calls = NoCalls
    /\ blacklist = {}
    /\ last = NoCall

(* The raw value is put to the method of the row and to the lookup of the
   service *)
CheckValidity(kind, raw) ==
    LET sec == security[ConcEmail]
        method == IF kind = "forgot_password"
                  THEN verify_forgot_password_token(sec, raw, clock)
                  ELSE verify_email_verification_token(sec, raw, clock)
        lookup == IF kind = "forgot_password"
                  THEN ConcEmail \in UnexpiredMatches(hash_token(raw), clock)
                  ELSE ConcEmail \in UnexpiredVerifications(hash_token(raw), clock)
        expiry == IF kind = "forgot_password" THEN sec.forgot_password_expiry
                  ELSE sec.email_verification_expiry
    IN
    /\ last' = [op |-> "check_validity", arg |-> raw, result |-> method,
                tokens |-> << >>,
                pre |-> [kind |-> kind, lookup |-> lookup, at_expiry |-> clock = expiry]]
    /\ UNCHANGED <<clock, users, security, nextRaw, issued, generated, jwts, failed,
                   spent, rows, outbox, calls, blacklist>>

NextValidity ==
    \E kind \in Kinds : \E raw \in RawTokens : CheckValidity(kind, raw)

SpecValidity == InitValidity /\ [][NextValidity]_vars

(* C40: for every stored secret, raw value and time, the instant of the
   expiry included, the method of the row accepts the raw value exactly when
   the lookup of the service finds the secret, for the reset secret and for
   the verification secret. *)
C40_ValidityAgrees ==
    last.op = "check_validity" => (last.result <=> last.pre.lookup)

====
